---------------------------- MODULE Spec2Model ----------------------------
(***************************************************************************)
(* RAPTOR: the standalone data profiler and rule-based recommender of      *)
(* scripts/02_profile_data.py (class RNAseqDataProfiler and main).         *)
(*                                                                         *)
(* A count matrix is a function counts[g][s] (genes x samples).  Python    *)
(* numbers are unbounded / IEEE doubles; the model keeps every quantity a  *)
(* property reads exact:                                                   *)
(*   - a ratio is a pair <<num, den>> in lowest terms, den > 0;            *)
(*     NaN is <<0, 0>>;                                                    *)
(*   - a Pearson correlation r is <<sign, n, d>> with r = sign*sqrt(n/d),  *)
(*     n/d in lowest terms; NaN is <<0, 0, 0>>;                            *)
(*   - a BCV is kept by its sign, "pos" or "zero";                         *)
(*   - a statistic no property reads the value of (a log10 range, a PCA    *)
(*     variance ratio, ...) is the token "value", or "NaN".                *)
(* Matrix entries are drawn from values v with v + 1 a power of two, so    *)
(* that log2(v + 1) is an integer and the correlations are exact.          *)
(* pandas semantics are those of pandas 1.3 - 2.x (setup.py: pandas >=     *)
(* 1.3.0): reductions skip NaN, DataFrame.stack() drops NaN.               *)
(***************************************************************************)
EXTENDS Integers, Sequences, FiniteSets, TLC

\* The data profiler of scripts/02_profile_data.py.
VARIABLES counts, profile, lastCall, raised, returned, saved

\* The quick quantification pipelines (pipelines/quick_salmon, quick_kallisto),
\* the sample sheet (raptor/sample_sheet.py) and the quick-count command:
\*   sheet  the loaded SampleSheet (is_paired, samples)
\*   fs     the file system: the FASTQ files that exist, the output directory
\*   pipe   the pipeline object (constructed or not, self.results)
\*   qcall  the last call on them, its arguments and its outcome
VARIABLES sheet, fs, pipe, qcall

\* The ML recommender: its state and the last call on it.
VARIABLES ml, mlcall

pvars == <<counts, profile, lastCall, raised, returned, saved>>

qvars == <<sheet, fs, pipe, qcall>>

mlvars == <<ml, mlcall>>

vars == <<counts, profile, lastCall, raised, returned, saved,
          sheet, fs, pipe, qcall, ml, mlcall>>

\* No sample sheet is loaded and no pipeline is built.
QuantIdle ==
    /\ sheet = [is_paired |-> FALSE, samples |-> <<>>]
    /\ fs = [exists |-> {}, output_dir |-> FALSE, quant |-> {}, counts |-> {},
             tpm |-> {}, sample_info |-> <<>>]
    /\ pipe = [state |-> "none", method |-> "none", results |-> <<>>]
    /\ qcall = [op |-> "none"]

\* No ML recommender is built.
MLIdle ==
    /\ ml = [state |-> "none"]
    /\ mlcall = [op |-> "none"]

\* No profiler is built.
ProfilerIdle ==
    /\ counts = <<>>
    /\ profile = <<>>
    /\ lastCall = "init"
    /\ raised = "none"
    /\ returned = <<>>
    /\ saved = FALSE

-----------------------------------------------------------------------------
(* Bounds of the model *)

MaxGenes == 2

MaxSamples == 6

(* Program constants *)

LibraryThreshold == 10000000

ZeroThreshold == 70

SpeedThreshold == 20

-----------------------------------------------------------------------------
(* Matrix entries *)

\* A deep-coverage count: 2^24 - 1 reads, so that log2(count + 1) = 24.
Deep == 2^24 - 1

\* A missing cell (numpy NaN); every reduction below skips it.
NaN == 0 - 2^30

Negative == 0 - 5

ValidEntries == {0, 1, 3, Deep}

IsNaN(c) == c = NaN

-----------------------------------------------------------------------------
(* Arithmetic helpers *)

Abs(x) == IF x < 0 THEN 0 - x ELSE x

Sign(x) == IF x < 0 THEN 0 - 1 ELSE IF x > 0 THEN 1 ELSE 0

RECURSIVE GCD(_, _)
GCD(a, b) == IF b = 0 THEN a ELSE GCD(b, a % b)

\* The sum of s[lo..hi], by halves.
RECURSIVE SumRange(_, _, _)
SumRange(s, lo, hi) ==
    IF lo > hi THEN 0
    ELSE IF lo = hi THEN s[lo]
    ELSE SumRange(s, lo, (lo + hi) \div 2) + SumRange(s, (lo + hi) \div 2 + 1, hi)

\* The sum of a sequence; the sequence is evaluated once (v).
SumSeq(s) == CHOOSE total \in {SumRange(v, 1, Len(v)) : v \in {s}} : TRUE

\* num / den as a ratio in lowest terms (den > 0); 0/0 is NaN.
NaNRatio == <<0, 0>>

Ratio(num, den) ==
    IF den = 0 THEN NaNRatio
    ELSE LET g == GCD(Abs(num), Abs(den))
         IN  <<Sign(den) * (num \div g), Abs(den) \div g>>

IsNumber(q) == q[2] # 0

\* q < c and q > c for a ratio q and an integer c; false on NaN, as in IEEE.
RatioLess(q, c) == IsNumber(q) /\ q[1] < c * q[2]

RatioGreater(q, c) == IsNumber(q) /\ q[1] > c * q[2]

-----------------------------------------------------------------------------
(* The count matrix: counts[g][s], genes as rows and samples as columns *)

NGenes(m) == Len(m)

NSamples(m) == Len(m[1])

Genes(m) == 1..NGenes(m)

Samples(m) == 1..NSamples(m)

Column(m, s) == [g \in Genes(m) |-> m[g][s]]

\* The cells of a row or column that a pandas reduction sees (skipna=True).
NotNaN(xs) == SelectSeq(xs, LAMBDA c : ~IsNaN(c))

\* Series.sum(): NaN cells are skipped, an all-NaN series sums to 0.
SeriesSum(xs) == SumSeq(NotNaN(xs))

\* (series > 0).sum(): a NaN cell compares False.
CountPositive(xs) == Len(SelectSeq(xs, LAMBDA c : ~IsNaN(c) /\ c > 0))

\* (series == 0).sum()
CountZero(xs) == Len(SelectSeq(xs, LAMBDA c : c = 0))

SortedSeq(xs) == SortSeq(xs, LAMBDA a, b : a < b)

\* Series.median() of integers without NaN.
Median(xs) ==
    LET srt == SortedSeq(xs)
        n   == Len(xs)
    IN  IF n = 0 THEN NaNRatio
        ELSE IF n % 2 = 1 THEN Ratio(srt[(n + 1) \div 2], 1)
        ELSE Ratio(srt[n \div 2] + srt[n \div 2 + 1], 2)

MinSeq(xs) == CHOOSE x \in {xs[i] : i \in DOMAIN xs} : \A i \in DOMAIN xs : x <= xs[i]

\* Writing profile[key] = value.
Put(p, key, value) == (key :> value) @@ p

Has(p, key) == key \in DOMAIN p

EmptyProfile == <<>>

\* The outcome of a method: the profile it leaves and the exception it raised.
Outcome(p, exc) == [profile |-> p, exc |-> exc]

-----------------------------------------------------------------------------
(* calculate_basic_stats *)

LibrarySizes(m) == [s \in Samples(m) |-> SeriesSum(Column(m, s))]

\* std(ddof=1) / mean of the library sizes, kept by its kind: the standard
\* deviation of one sample is NaN, 0 / 0 is NaN, x / 0 is inf.
LibrarySizeCV(m) ==
    LET sizes == LibrarySizes(m)
    IN  IF NSamples(m) < 2 THEN "NaN"
        ELSE IF SumSeq(sizes) = 0
             THEN IF \A s \in Samples(m) : sizes[s] = 0 THEN "NaN" ELSE "inf"
             ELSE "value"

\* ZeroValuesMutant: counts the zeros of the first sample only.
ZeroValuesMutant(m) == CountZero(Column(m, 1))

\* (self.counts == 0).sum().sum(): the zeros of each sample, summed.
ZeroValues(m) == SumSeq([s \in Samples(m) |-> CountZero(Column(m, s))])

\* self.counts.size
TotalValues(m) == NGenes(m) * NSamples(m)

ZeroPercentage(m) == Ratio(100 * ZeroValues(m), TotalValues(m))

CalculateBasicStats(m, p) ==
    LET sizes == LibrarySizes(m)
        p1 == Put(p,  "n_genes", NGenes(m))
        p2 == Put(p1, "n_samples", NSamples(m))
        p3 == Put(p2, "mean_library_size", Ratio(SumSeq(sizes), NSamples(m)))
        p4 == Put(p3, "median_library_size", Median(sizes))
        p5 == Put(p4, "library_size_cv", LibrarySizeCV(m))
        p6 == Put(p5, "mean_genes_detected",
                  Ratio(SumSeq([g \in Genes(m) |-> CountPositive(m[g])]), NGenes(m)))
        p7 == Put(p6, "zero_percentage", ZeroPercentage(m))
    IN  Outcome(p7, "none")

-----------------------------------------------------------------------------
(* calculate_expression_characteristics *)

\* counts.mean(axis=1) of one gene: the mean of its non-NaN cells.
GeneMean(row) == Ratio(SeriesSum(row), Len(NotNaN(row)))

LowExpressionGenes(m) == Cardinality({g \in Genes(m) : RatioLess(GeneMean(m[g]), 10)})

HighExpressionGenes(m) == Cardinality({g \in Genes(m) : RatioGreater(GeneMean(m[g]), 100)})

\* A mean over the genes, kept by its kind: NaN iff every gene's value is NaN.
HasMean(row) == Len(NotNaN(row)) >= 1

\* Series.var() (ddof=1) of a gene is NaN with fewer than two cells.
HasVariance(row) == Len(NotNaN(row)) >= 2

\* gene_means.mean(), gene_means.median(): NaN when no gene has a mean.
MeanExpression(m) ==
    IF \E g \in Genes(m) : HasMean(m[g]) THEN "value" ELSE "NaN"

\* gene_vars.mean(): NaN when no gene has a variance.
MeanVariance(m) ==
    IF \E g \in Genes(m) : HasVariance(m[g]) THEN "value" ELSE "NaN"

CalculateExpressionCharacteristics(m, p) ==
    LET low  == LowExpressionGenes(m)
        high == HighExpressionGenes(m)
        p1 == Put(p,  "mean_expression", MeanExpression(m))
        p2 == Put(p1, "median_expression", MeanExpression(m))
        p3 == Put(p2, "mean_variance", MeanVariance(m))
        p4 == Put(p3, "low_expression_genes", low)
        p5 == Put(p4, "high_expression_genes", high)
        p6 == Put(p5, "pct_low_expression", Ratio(100 * low, NGenes(m)))
        p7 == Put(p6, "pct_high_expression", Ratio(100 * high, NGenes(m)))
        p8 == IF \E g \in Genes(m) : RatioGreater(GeneMean(m[g]), 0)
              THEN Put(p7, "expression_range_log10", "value")
              ELSE p7
    IN  Outcome(p8, "none")

-----------------------------------------------------------------------------
(* calculate_dispersion *)

\* A count x is written x = Hi(x) * Deep + Lo(x), so that the squares of deep
\* counts never leave the machine integers.
Hi(x) == IF x >= Deep THEN x \div Deep ELSE 0

Lo(x) == x - Hi(x) * Deep

\* The sign of (variance - mean) of a gene with cells xs (n = Len(xs) >= 2,
\* variance with ddof=1): it is the sign of n * Sum(x^2) - S^2 - (n - 1) * S
\* where S = Sum(x).  With x = a * Deep + b that number is
\* c2 * Deep^2 + c1 * Deep + c0; |c1| and |c0| stay far below Deep for the
\* matrices of the model, so its sign is that of the first non-zero coefficient.
VarianceMinusMeanSign(xs) ==
    LET n  == Len(xs)
        A  == SumSeq([i \in 1..n |-> Hi(xs[i])])
        B  == SumSeq([i \in 1..n |-> Lo(xs[i])])
        AA == SumSeq([i \in 1..n |-> Hi(xs[i]) * Hi(xs[i])])
        AB == SumSeq([i \in 1..n |-> Hi(xs[i]) * Lo(xs[i])])
        BB == SumSeq([i \in 1..n |-> Lo(xs[i]) * Lo(xs[i])])
        c2 == n * AA - A * A
        c1 == 2 * n * AB - 2 * A * B - (n - 1) * A
        c0 == n * BB - B * B - (n - 1) * B
    IN  IF c2 # 0 THEN Sign(c2) ELSE IF c1 # 0 THEN Sign(c1) ELSE Sign(c0)

\* bcv_squared of one gene, kept by its sign: "masked" when the gene's mean is
\* not > 0 (mask = gene_means > 0), "NaN" when its variance is NaN.
BcvSquared(row) ==
    LET xs == NotNaN(row)
    IN  IF ~RatioGreater(GeneMean(row), 0) THEN "masked"
        ELSE IF Len(xs) < 2 THEN "NaN"
        ELSE LET sg == VarianceMinusMeanSign(xs)
             IN  IF sg > 0 THEN "pos" ELSE IF sg = 0 THEN "zero" ELSE "neg"

\* BcvRetainedMutant: keeps bcv_squared >= 0.
BcvRetainedMutant(b) == b \in {"pos", "zero"}

\* bcv_squared[bcv_squared > 0]
BcvRetained(b) == b = "pos"

\* The retained estimates, in gene order.
RetainedBcvSquared(m) ==
    SelectSeq([g \in Genes(m) |-> BcvSquared(m[g])], LAMBDA b : b # "masked" /\ BcvRetained(b))

\* sqrt(median) of non-negative estimates, by sign: the middle one (or the mean
\* of the two middle ones) of the sorted values.
MedianBcv(bs) ==
    LET n     == Len(bs)
        zeros == Len(SelectSeq(bs, LAMBDA b : b = "zero"))
        sorted(i) == IF i <= zeros THEN "zero" ELSE "pos"
    IN  IF n % 2 = 1 THEN sorted((n + 1) \div 2)
        ELSE IF sorted(n \div 2 + 1) = "pos" THEN "pos" ELSE "zero"

\* sqrt(mean) of non-negative estimates, by sign.
MeanBcv(bs) == IF \E i \in DOMAIN bs : bs[i] = "pos" THEN "pos" ELSE "zero"

CalculateDispersion(m, p) ==
    LET bs == RetainedBcvSquared(m)
    IN  IF Len(bs) > 0
        THEN Outcome(Put(Put(p, "median_bcv", MedianBcv(bs)), "mean_bcv", MeanBcv(bs)), "none")
        ELSE Outcome(p, "none")

-----------------------------------------------------------------------------
(* calculate_sample_correlation *)

\* log2 of a negative number and of NaN is NaN.
LogNaN == 0 - 1

RECURSIVE Log2(_)
Log2(n) == IF n <= 1 THEN 0 ELSE 1 + Log2(n \div 2)

\* np.log2(count + 1); the entries of the model have count + 1 a power of two.
Log2p1(c) == IF IsNaN(c) \/ c + 1 <= 0 THEN LogNaN ELSE Log2(c + 1)

\* log_counts, by sample: LogCounts(m)[s][g]
LogCounts(m) == [s \in Samples(m) |-> [g \in Genes(m) |-> Log2p1(m[g][s])]]

NaNCorr == <<0, 0, 0>>

IsCorr(r) == r[3] # 0

\* Pearson correlation of two log-columns over the genes where both are not
\* NaN (pandas: pairwise complete observations, min_periods = 1).  It is NaN
\* when one of the two has no variance there (also with a single gene).
Pearson(x, y) ==
    LET both(g) == x[g] # LogNaN /\ y[g] # LogNaN
        Over(f(_)) == SumSeq([g \in DOMAIN x |-> IF both(g) THEN f(g) ELSE 0])
        n    == Over(LAMBDA g : 1)
        Sx   == Over(LAMBDA g : x[g])
        Sy   == Over(LAMBDA g : y[g])
        Sxx  == Over(LAMBDA g : x[g] * x[g])
        Syy  == Over(LAMBDA g : y[g] * y[g])
        Sxy  == Over(LAMBDA g : x[g] * y[g])
        vx   == n * Sxx - Sx * Sx
        vy   == n * Syy - Sy * Sy
        cov  == n * Sxy - Sx * Sy
    IN  IF vx = 0 \/ vy = 0 THEN NaNCorr
        ELSE IF cov = 0 THEN <<0, 0, 1>>
        ELSE LET sq == Ratio(cov * cov, vx * vy)
             IN  <<Sign(cov), sq[1], sq[2]>>

\* a < b for two correlations (not NaN).
CorrLess(a, b) ==
    IF a = b THEN FALSE
    ELSE IF a[1] # b[1] THEN a[1] < b[1]
    ELSE IF a[1] > 0 THEN a[2] * b[3] < b[2] * a[3]
    ELSE a[2] * b[3] > b[2] * a[3]

\* upper_tri.stack().values, as the set of its values: the correlations of the
\* pairs of samples i < j, without the NaN ones (stack() drops them).  Two
\* samples with the same log-counts give the same correlations, so the pairs
\* are taken over the distinct log-columns; a column is paired with itself
\* when two samples carry it.
UpperTriangle(m) ==
    LET logs     == LogCounts(m)
        columns  == {logs[s] : s \in Samples(m)}
        twice(x) == Cardinality({s \in Samples(m) : logs[s] = x}) >= 2
        pairs    == {q \in columns \X columns : q[1] # q[2] \/ twice(q[1])}
        all      == {Pearson(q[1], q[2]) : q \in pairs}
    IN  {r \in all : IsCorr(r)}

MinCorr(rs) == CHOOSE r \in rs : \A q \in rs : ~CorrLess(q, r)

\* mean and median of an empty array are NaN (with a warning); min() of an
\* empty array raises ValueError, after the two fields before it were written.
CalculateSampleCorrelation(m, p) ==
    LET correlations == UpperTriangle(m)
        kind == IF correlations = {} THEN "NaN" ELSE "value"
        p1 == Put(p,  "mean_sample_correlation", kind)
        p2 == Put(p1, "median_sample_correlation", kind)
    IN  IF correlations = {}
        THEN Outcome(p2, "ValueError")
        ELSE Outcome(Put(p2, "min_sample_correlation", MinCorr(correlations)), "none")

-----------------------------------------------------------------------------
(* calculate_complexity *)

GenesPerSample(m) == [s \in Samples(m) |-> CountPositive(Column(m, s))]

\* np.mean of 100 * top_20_sum / library size over the samples, by its kind:
\* a sample without reads gives 0 / 0 = NaN, and np.mean keeps the NaN.
MeanTop20Percentage(m) ==
    IF \E s \in Samples(m) : SeriesSum(Column(m, s)) = 0 THEN "NaN" ELSE "value"

CalculateComplexity(m, p) ==
    LET per == GenesPerSample(m)
        p1 == Put(p,  "mean_genes_per_sample", Ratio(SumSeq(per), NSamples(m)))
        p2 == Put(p1, "min_genes_per_sample", MinSeq(per))
        p3 == Put(p2, "mean_top20_percentage", MeanTop20Percentage(m))
    IN  Outcome(p3, "none")

-----------------------------------------------------------------------------
(* detect_batch_effects *)

Min(a, b) == IF a < b THEN a ELSE b

\* PCA(n_components=min(3, n_samples))
NComponents(m) == Min(3, NSamples(m))

\* fit_transform raises ValueError on NaN input and when n_components exceeds
\* min(n_samples, n_features).
PCAFails(m) ==
    \/ \E g \in Genes(m), s \in Samples(m) : Log2p1(m[g][s]) = LogNaN
    \/ NComponents(m) > Min(NSamples(m), NGenes(m))

DistinctSamples(m) == LET logs == LogCounts(m) IN {logs[s] : s \in Samples(m)}

Max(a, b) == IF a < b THEN b ELSE a

\* PCA's svd_solver = 'auto' (scikit-learn >= 1.0, setup.py): the exact solver
\* when max(X.shape) <= 500, else the randomized one when
\* n_components < 0.8 * min(X.shape).
SolverThreshold == 500

RandomizedSolver(m) ==
    /\ ~PCAFails(m)
    /\ Max(NSamples(m), NGenes(m)) > SolverThreshold
    /\ 10 * NComponents(m) < 8 * Min(NSamples(m), NGenes(m))

\* The variance ratios a call can compute.  PCA is built without random_state,
\* so the randomized solver draws from numpy's global generator: a call gets
\* the value of one draw or that of another.
SolverDraws(m) == IF RandomizedSolver(m) THEN {"value", "value of another draw"} ELSE {"value"}

\* explained_variance_ratio_ is 0 / 0 = NaN when the samples do not differ.
VarianceRatio(m, draw) == IF Cardinality(DistinctSamples(m)) = 1 THEN "NaN" ELSE draw

\* The samples with |zscore(PC1 score)| > 3.  When the samples take two
\* distinct values, a of them one and b the other, the PC1 scores take two
\* values with z-scores sqrt(b / a) and sqrt(a / b); when they do not differ
\* the z-scores are NaN and nothing is flagged.  The matrices of the model have
\* at most two distinct samples.
PotentialOutliers(m) ==
    LET logs == LogCounts(m)
        ds == {logs[s] : s \in Samples(m)}
        size(d) == Cardinality({s \in Samples(m) : logs[s] = d})
    IN  IF Cardinality(ds) # 2 THEN 0
        ELSE LET d1 == CHOOSE d \in ds : TRUE
                 a  == size(d1)
                 b  == NSamples(m) - a
             IN  (IF b > 9 * a THEN a ELSE 0) + (IF a > 9 * b THEN b ELSE 0)

\* The except branch writes pca_var_explained_pc1 only.
DetectBatchEffects(m, p, draw) ==
    IF PCAFails(m)
    THEN Outcome(Put(p, "pca_var_explained_pc1", "None"), "none")
    ELSE LET p1 == Put(p,  "pca_var_explained_pc1", VarianceRatio(m, draw))
             p2 == Put(p1, "pca_var_explained_pc2",
                       IF NComponents(m) > 1 THEN VarianceRatio(m, draw) ELSE "0")
             p3 == Put(p2, "potential_outliers", PotentialOutliers(m))
         IN  Outcome(p3, "none")

-----------------------------------------------------------------------------
(* generate_full_profile *)

\* The calls of the body, in order.
ProfileSteps ==
    <<"calculate_basic_stats", "calculate_expression_characteristics",
      "calculate_dispersion", "calculate_sample_correlation",
      "calculate_complexity", "detect_batch_effects">>

\* StepReadsProfileMutant: detect_batch_effects looks n_samples up in the
\* profile and does nothing when calculate_basic_stats has not run.
StepReadsProfileMutant(name, m, p, draw) ==
    CASE name = "calculate_basic_stats" -> CalculateBasicStats(m, p)
      [] name = "calculate_expression_characteristics" -> CalculateExpressionCharacteristics(m, p)
      [] name = "calculate_dispersion" -> CalculateDispersion(m, p)
      [] name = "calculate_sample_correlation" -> CalculateSampleCorrelation(m, p)
      [] name = "calculate_complexity" -> CalculateComplexity(m, p)
      [] name = "detect_batch_effects" ->
            IF Has(p, "n_samples") THEN DetectBatchEffects(m, p, draw) ELSE Outcome(p, "none")

Step(name, m, p, draw) ==
    CASE name = "calculate_basic_stats" -> CalculateBasicStats(m, p)
      [] name = "calculate_expression_characteristics" -> CalculateExpressionCharacteristics(m, p)
      [] name = "calculate_dispersion" -> CalculateDispersion(m, p)
      [] name = "calculate_sample_correlation" -> CalculateSampleCorrelation(m, p)
      [] name = "calculate_complexity" -> CalculateComplexity(m, p)
      [] name = "detect_batch_effects" -> DetectBatchEffects(m, p, draw)

\* Runs the remaining steps on the outcome so far; an exception of one ends
\* the method with the fields written so far.  The outcome of each step is
\* bound once (n) and handed on.
RECURSIVE RunSteps(_, _, _, _)
RunSteps(m, o, steps, draw) ==
    IF steps = <<>> \/ o.exc # "none" THEN o
    ELSE CHOOSE r \in {RunSteps(m, n, Tail(steps), draw) :
                          n \in {Step(Head(steps), m, o.profile, draw)}} : TRUE

\* draw: what the PCA solver of this call computes (one of SolverDraws(m)).
FullProfile(m, p, draw) == RunSteps(m, Outcome(p, "none"), ProfileSteps, draw)

-----------------------------------------------------------------------------
(* recommend_pipeline *)

RecNOISeq == "Pipeline 6 (NOISeq) - designed for no replicates"

RecEBSeq == "Pipeline 7 (EBSeq) - optimized for small sample sizes"

RecStarRsemDESeq2 == "Pipeline 1 (STAR-RSEM-DESeq2) - gold standard for adequate samples"

RecLimmaVoomDesigns == "Pipeline 5 (limma-voom) - excellent for complex designs"

RecPseudoLowCoverage == "Pipeline 3 (Salmon) or Pipeline 4 (Kallisto) - efficient for lower coverage"

RecFilterGenes == "Consider filtering lowly expressed genes"

RecLimmaVoomBatch == "Pipeline 5 (limma-voom) - can handle batch effects"

RecBatchCorrection == "Consider batch correction"

RecPseudoLargeData == "Pipeline 3 (Salmon) or Pipeline 4 (Kallisto) - faster for large datasets"

\* SampleSizeRuleMutant: the no-replicate branch tests n_samples <= 2.
SampleSizeRuleMutant(n_samples) ==
    IF n_samples <= 2 THEN <<RecNOISeq>>
    ELSE IF n_samples <= 3 THEN <<RecEBSeq>>
    ELSE IF n_samples >= 6 THEN <<RecStarRsemDESeq2, RecLimmaVoomDesigns>>
    ELSE <<>>

\* SampleSizeRuleWindowMutant: the last branch tests n_samples = 4.
SampleSizeRuleWindowMutant(n_samples) ==
    IF n_samples < 2 THEN <<RecNOISeq>>
    ELSE IF n_samples <= 3 THEN <<RecEBSeq>>
    ELSE IF n_samples = 4 THEN <<RecStarRsemDESeq2, RecLimmaVoomDesigns>>
    ELSE <<>>

\* Based on sample size
SampleSizeRule(n_samples) ==
    IF n_samples < 2 THEN <<RecNOISeq>>
    ELSE IF n_samples <= 3 THEN <<RecEBSeq>>
    ELSE IF n_samples >= 6 THEN <<RecStarRsemDESeq2, RecLimmaVoomDesigns>>
    ELSE <<>>

\* Based on library size: mean_library_size < 10e6
LibrarySizeRule(mean_library_size) ==
    IF RatioLess(mean_library_size, LibraryThreshold) THEN <<RecPseudoLowCoverage>> ELSE <<>>

\* ZeroInflationScaleMutant: the percentage is compared with the fraction 0.7.
ZeroInflationScaleMutant(zero_percentage) ==
    IF IsNumber(zero_percentage) /\ 10 * zero_percentage[1] > 7 * zero_percentage[2]
    THEN <<RecFilterGenes>> ELSE <<>>

\* Based on zero inflation: zero_percentage > 70
ZeroInflationRule(zero_percentage) ==
    IF RatioGreater(zero_percentage, ZeroThreshold) THEN <<RecFilterGenes>> ELSE <<>>

\* r < 0.7 for a correlation r = sign * sqrt(n / d); false on NaN.  For r > 0
\* it is 100 * n < 49 * d, written without the product 100 * n.
CorrBelowThreshold(r) ==
    /\ IsCorr(r)
    /\ \/ r[1] <= 0
       \/ r[2] <= (49 * r[3] - 1) \div 100

\* Based on correlation (batch effects): min_sample_correlation < 0.7
CorrelationRule(min_sample_correlation) ==
    IF CorrBelowThreshold(min_sample_correlation)
    THEN <<RecLimmaVoomBatch, RecBatchCorrection>>
    ELSE <<>>

\* General speed recommendation: n_samples > 20
SpeedRule(n_samples) ==
    IF n_samples > SpeedThreshold THEN <<RecPseudoLargeData>> ELSE <<>>

\* The list built by the rules, in the order of the code.
Recommendations(p) ==
    SampleSizeRule(p["n_samples"])
      \o LibrarySizeRule(p["mean_library_size"])
      \o ZeroInflationRule(p["zero_percentage"])
      \o CorrelationRule(p["min_sample_correlation"])
      \o SpeedRule(p["n_samples"])

\* The fields recommend_pipeline reads with self.profile[...].
FieldsRead == {"n_samples", "mean_library_size", "zero_percentage", "min_sample_correlation"}

\* A missing field raises KeyError before the list is stored or returned.
RecommendPipelineCall(p) ==
    IF \E key \in FieldsRead : ~Has(p, key)
    THEN [profile |-> p, exc |-> "KeyError", recommendations |-> <<>>]
    ELSE LET recommendations == Recommendations(p)
         IN  [profile |-> Put(p, "recommendations", recommendations),
              exc |-> "none",
              recommendations |-> recommendations]

-----------------------------------------------------------------------------
(* The profiler object and the script's main() *)

\* The sample counts of the model: 1..MaxSamples, and a cohort above the
\* speed rule's threshold.
SampleCounts == (1..MaxSamples) \cup {SpeedThreshold + 1}

\* A matrix of the model: its first two genes and first two samples are free,
\* every later gene repeats the second gene and every later sample the second
\* sample; cell [1][1] may be negative or missing (read_csv loads both without
\* complaint).
Matrix(nG, nS, base, bad) ==
    [g \in 1..nG |-> [s \in 1..nS |->
        IF bad # 0 /\ g = 1 /\ s = 1 THEN bad
        ELSE base[IF g = 1 THEN 1 ELSE 2][IF s = 1 THEN 1 ELSE 2]]]

SmallMatrices ==
    UNION {{Matrix(nG, nS, base, bad) :
                base \in [1..2 -> [1..2 -> ValidEntries]],
                bad \in {0, Negative, NaN}} :
           nG \in 1..MaxGenes, nS \in SampleCounts}

\* Matrices of a transcriptome's size: more genes than the exact PCA solver
\* is used for, and 4 samples, the smallest cohort the randomized solver is
\* used for; in the second one only the first gene is expressed.
LargeMatrices ==
    {Matrix(SolverThreshold + 1, nS, base, 0) :
        base \in {<<<<1, 3>>, <<3, 1>>>>, <<<<1, 3>>, <<0, 0>>>>}, nS \in {4}}

Matrices == SmallMatrices \cup LargeMatrices

\* RNAseqDataProfiler(count_matrix): self.profile = {}
Init ==
    /\ counts \in Matrices
    /\ profile = EmptyProfile
    /\ lastCall = "init"
    /\ raised = "none"
    /\ returned = <<>>
    /\ saved = FALSE
    /\ QuantIdle
    /\ MLIdle

\* profiler.generate_full_profile()
GenerateFullProfile ==
    /\ lastCall # "main"
    /\ \E draw \in SolverDraws(counts) : \E o \in {FullProfile(counts, profile, draw)} :
           /\ profile' = o.profile
           /\ raised' = o.exc
    /\ lastCall' = "generate_full_profile"
    /\ UNCHANGED <<counts, returned, saved>>
    /\ UNCHANGED <<qvars, mlvars>>

\* profiler.recommend_pipeline()
RecommendPipeline ==
    /\ lastCall # "main"
    /\ \E o \in {RecommendPipelineCall(profile)} :
           /\ profile' = o.profile
           /\ raised' = o.exc
           /\ returned' = IF o.exc = "none" THEN o.recommendations ELSE returned
    /\ lastCall' = "recommend_pipeline"
    /\ UNCHANGED <<counts, saved>>
    /\ UNCHANGED <<qvars, mlvars>>

\* main(): build the profiler on the loaded matrix, profile, recommend, write
\* the profile as JSON.  An exception of a call ends the script before the
\* file is written.
Main ==
    /\ lastCall = "init"
    /\ \E draw \in SolverDraws(counts) : \E o1 \in {FullProfile(counts, EmptyProfile, draw)} :
           IF o1.exc # "none"
           THEN /\ profile' = o1.profile
                /\ raised' = o1.exc
                /\ UNCHANGED <<returned, saved>>
           ELSE \E o2 \in {RecommendPipelineCall(o1.profile)} :
                /\ profile' = o2.profile
                /\ raised' = o2.exc
                /\ returned' = IF o2.exc = "none" THEN o2.recommendations ELSE returned
                /\ saved' = (o2.exc = "none")
    /\ lastCall' = "main"
    /\ UNCHANGED counts
    /\ UNCHANGED <<qvars, mlvars>>

Next == GenerateFullProfile \/ RecommendPipeline \/ Main

Spec == Init /\ [][Next]_vars

-----------------------------------------------------------------------------
(* recommend_pipeline as a function of the profile it reads: the profiler    *)
(* holds a profile mapping with the four fields of the rules (self.profile   *)
(* is a plain dict attribute), and recommend_pipeline is called on it.       *)

ProfileSampleCounts == 1..(SpeedThreshold + 2)

\* Mean library sizes on both sides of the threshold, and the threshold.
ProfileLibrarySizes ==
    {Ratio(3, 2), Ratio(LibraryThreshold - 1, 1), Ratio(LibraryThreshold, 1),
     Ratio(2 * LibraryThreshold + 1, 2)}

\* Zero percentages: none, the threshold, just above it, all.
ProfileZeroPercentages ==
    {Ratio(0, 1), Ratio(ZeroThreshold, 1), Ratio(2 * ZeroThreshold + 1, 2), Ratio(100, 1)}

\* Minimal correlations: -1, 0, 0.6, 0.7, 0.8, 1.
ProfileCorrelations ==
    {<<0 - 1, 1, 1>>, <<0, 0, 1>>, <<1, 9, 25>>, <<1, 49, 100>>, <<1, 16, 25>>, <<1, 1, 1>>}

RuleProfile(n, lib, zero, corr) ==
    Put(Put(Put(Put(EmptyProfile, "n_samples", n), "mean_library_size", lib),
            "zero_percentage", zero), "min_sample_correlation", corr)

InitRules ==
    /\ counts = <<>>
    /\ profile \in {RuleProfile(n, lib, zero, corr) :
                        n \in ProfileSampleCounts, lib \in ProfileLibrarySizes,
                        zero \in ProfileZeroPercentages, corr \in ProfileCorrelations}
    /\ lastCall = "init"
    /\ raised = "none"
    /\ returned = <<>>
    /\ saved = FALSE
    /\ QuantIdle
    /\ MLIdle

NextRules == RecommendPipeline

SpecRules == InitRules /\ [][NextRules]_vars

-----------------------------------------------------------------------------
(* Vocabulary of the properties *)

In(e, seq) == \E i \in DOMAIN seq : seq[i] = e

\* The last call was recommend_pipeline and it returned its list.
Returned == lastCall = "recommend_pipeline" /\ raised = "none"

\* A recommendation list has been produced and stored.
Recommended == Has(profile, "recommendations")

\* generate_full_profile has run on the matrix (its first step wrote n_genes).
Profiled == Has(profile, "n_genes")

\* The pipelines an entry of the list names; an advisory entry names none.
PipelinesOf(e) ==
    IF e = RecNOISeq THEN {6}
    ELSE IF e = RecEBSeq THEN {7}
    ELSE IF e = RecStarRsemDESeq2 THEN {1}
    ELSE IF e \in {RecLimmaVoomDesigns, RecLimmaVoomBatch} THEN {5}
    ELSE IF e \in {RecPseudoLowCoverage, RecPseudoLargeData} THEN {3, 4}
    ELSE {}

IsPipelineEntry(e) == PipelinesOf(e) # {}

\* A well-formed matrix: no negative and no missing entry.
WellFormed(m) == \A g \in Genes(m), s \in Samples(m) : ~IsNaN(m[g][s]) /\ m[g][s] >= 0

AllZero(m) == \A g \in Genes(m), s \in Samples(m) : m[g][s] = 0

\* Data Profiler, step 8 (quality flags), the flag for n_samples < 3; the
\* package profiler raises it (raptor/profiler.py); the script keeps no flags.
TooFewSamplesFlag == "too few samples for robust variance estimation"

SampleCountFlags(n_samples) == IF n_samples < 3 THEN <<TooFewSamplesFlag>> ELSE <<>>

-----------------------------------------------------------------------------
(* C1 *)

\* C1: in the list recommend_pipeline returns, the sample-size rule selects by
\* n_samples: Pipeline 6 (NOISeq) exactly when n_samples < 2, Pipeline 7
\* (EBSeq) exactly when n_samples is 2 or 3, Pipeline 1 and Pipeline 5 (complex
\* designs) exactly when n_samples >= 6; so no two of the three cases occur
\* together.
C1_SampleSizeRule ==
    Returned =>
        LET n == profile["n_samples"]
        IN  /\ In(RecNOISeq, returned) <=> n < 2
            /\ In(RecEBSeq, returned) <=> n \in {2, 3}
            /\ In(RecStarRsemDESeq2, returned) <=> n >= 6
            /\ In(RecLimmaVoomDesigns, returned) <=> n >= 6

\* A profile of a single sample for which the list was returned with Pipeline 6.
C1_Witness == Returned /\ profile["n_samples"] = 1 /\ In(RecNOISeq, returned)

-----------------------------------------------------------------------------
(* C2 *)

-----------------------------------------------------------------------------
(* C3 *)

\* C3: every recommendation (for a well-formed matrix) is a primary pipeline
\* entry followed by at most 2 alternatives: the list is never empty, its first
\* entry is a pipeline, and it has at most 3 pipeline entries.
C3_PrimaryAndTwoAlternatives ==
    (Recommended /\ WellFormed(counts)) =>
        LET r == profile["recommendations"]
        IN  /\ Len(r) >= 1
            /\ IsPipelineEntry(r[1])
            /\ Cardinality({i \in DOMAIN r : IsPipelineEntry(r[i])}) <= 3

-----------------------------------------------------------------------------
(* C4 *)

\* C4: in every recommendation (for a well-formed matrix) no pipeline appears
\* twice, so no alternative is the primary's pipeline.
C4_NoPipelineTwice ==
    (Recommended /\ WellFormed(counts)) =>
        LET r == profile["recommendations"]
        IN  \A i, j \in DOMAIN r : i < j => PipelinesOf(r[i]) \cap PipelinesOf(r[j]) = {}

-----------------------------------------------------------------------------
(* C5 *)

\* C5: recommend_pipeline never raises, whatever fields the profile lacks.
C5_RecommendNeverRaises == lastCall = "recommend_pipeline" => raised = "none"

-----------------------------------------------------------------------------
(* C6 *)

\* C6: on a well-formed matrix with a single sample or a single gene the full
\* profile completes without raising, reports n_genes and n_samples, leaves
\* the minimal correlation null (absent or NaN), and a single sample is flagged.
C6_DegenerateMatrixProfiles ==
    (/\ lastCall = "generate_full_profile"
     /\ WellFormed(counts)
     /\ (NSamples(counts) = 1 \/ NGenes(counts) = 1)) =>
        /\ raised = "none"
        /\ Has(profile, "n_genes") /\ profile["n_genes"] = NGenes(counts)
        /\ Has(profile, "n_samples") /\ profile["n_samples"] = NSamples(counts)
        /\ Has(profile, "min_sample_correlation") => ~IsCorr(profile["min_sample_correlation"])
        /\ NSamples(counts) = 1 => In(TooFewSamplesFlag, SampleCountFlags(profile["n_samples"]))

-----------------------------------------------------------------------------
(* C7 *)

\* C7: on an all-zero matrix (here with at least 2 genes and 2 samples) the
\* full profile completes without raising and reports a zero percentage of 100
\* and a mean library size of 0.
C7_AllZeroProfiles ==
    (/\ lastCall = "generate_full_profile"
     /\ AllZero(counts)
     /\ NGenes(counts) >= 2 /\ NSamples(counts) >= 2) =>
        /\ raised = "none"
        /\ profile["zero_percentage"] = Ratio(100, 1)
        /\ profile["mean_library_size"] = Ratio(0, 1)

-----------------------------------------------------------------------------
(* C8 *)

ZeroCells(m) == {c \in Genes(m) \X Samples(m) : m[c[1]][c[2]] = 0}

Cells(m) == Genes(m) \X Samples(m)

\* C8: zero_percentage is 100 * (number of entries equal to 0) / (number of
\* entries): it lies in [0, 100], is 100 iff every entry is zero and 0 iff no
\* entry is zero.
C8_ZeroPercentage ==
    Has(profile, "zero_percentage") =>
        LET z     == profile["zero_percentage"]
            zeros == Cardinality(ZeroCells(counts))
            total == Cardinality(Cells(counts))
        IN  /\ IsNumber(z)
            /\ z[1] * total = 100 * zeros * z[2]
            /\ 0 <= z[1] /\ z[1] <= 100 * z[2]
            /\ (z = Ratio(100, 1)) <=> (ZeroCells(counts) = Cells(counts))
            /\ (z = Ratio(0, 1)) <=> (ZeroCells(counts) = {})

\* A profiled matrix with some zero entries in a later sample and some
\* non-zero entries.
C8_Witness ==
    /\ Has(profile, "zero_percentage")
    /\ \E c \in ZeroCells(counts) : c[2] > 1
    /\ ZeroCells(counts) # Cells(counts)
    /\ profile["zero_percentage"] = Ratio(50, 1)

-----------------------------------------------------------------------------
(* C9 *)

\* C9: main() rejects a matrix with a negative or missing entry with an error
\* instead of profiling it: it never runs through to a recommendation and a
\* written profile.
C9_InvalidMatrixRejected ==
    (lastCall = "main" /\ ~WellFormed(counts)) =>
        /\ raised # "none"
        /\ ~Recommended
        /\ ~saved

-----------------------------------------------------------------------------
(* C10 *)

\* The genes the dispersion step uses: mean > 0 and (variance - mean) > 0.
DispersedGenes(m) ==
    {g \in Genes(m) :
        /\ SeriesSum(m[g]) > 0
        /\ Len(NotNaN(m[g])) >= 2
        /\ VarianceMinusMeanSign(NotNaN(m[g])) > 0}

\* C10: median_bcv and mean_bcv are in the profile exactly when some gene has
\* mean > 0 and a strictly positive estimate; they are then positive, and
\* otherwise absent, never 0.
C10_DispersionFields ==
    Profiled =>
        /\ Has(profile, "median_bcv") <=> DispersedGenes(counts) # {}
        /\ Has(profile, "mean_bcv") <=> DispersedGenes(counts) # {}
        /\ Has(profile, "median_bcv") => profile["median_bcv"] = "pos"
        /\ Has(profile, "mean_bcv") => profile["mean_bcv"] = "pos"

\* A profiled matrix with a gene whose estimate is exactly 0 (variance = mean)
\* and no gene with a positive one: the BCV fields are absent.
C10_Witness ==
    /\ Profiled
    /\ \E g \in Genes(counts) : BcvSquared(counts[g]) = "zero"
    /\ DispersedGenes(counts) = {}
    /\ ~Has(profile, "median_bcv")

-----------------------------------------------------------------------------
(* C11 *)

PCAFields == {"pca_var_explained_pc1", "pca_var_explained_pc2", "potential_outliers"}

\* C11: when PCA fails on a well-formed matrix, detect_batch_effects does not raise and every PCA
\* field of the profile (PC1 and PC2 variance explained, outlier count) is
\* recorded as null.
C11_PCAFieldsNull ==
    (/\ lastCall = "generate_full_profile"
     /\ raised = "none"
     /\ WellFormed(counts)
     /\ PCAFails(counts)) =>
        \A f \in PCAFields : Has(profile, f) /\ profile[f] = "None"

-----------------------------------------------------------------------------
(* C12 *)

\* The number of entries of a list that name the pipeline.
Support(pipeline, r) == Cardinality({i \in DOMAIN r : pipeline \in PipelinesOf(r[i])})

\* C12: with the other fields of the profile fixed, raising n_samples (up to
\* 6) never lowers the support of Pipeline 1 or of Pipeline 5: the list
\* recommend_pipeline returned has no more entries for either than the list
\* for the same profile with a larger n_samples.
C12_MonotoneInSamples ==
    (Returned /\ profile["n_samples"] <= 6) =>
        \A larger \in profile["n_samples"]..6 : \A pipeline \in {1, 5} :
            Support(pipeline, returned)
                <= Support(pipeline, Recommendations(Put(profile, "n_samples", larger)))

\* The list was returned for 5 samples with Pipeline 5 in it (for batch
\* effects); for 6 samples the complex-design entry adds to it.
C12_Witness ==
    /\ Returned
    /\ profile["n_samples"] = 5
    /\ Support(5, returned) = 1
    /\ Support(5, Recommendations(Put(profile, "n_samples", 6))) = 2

-----------------------------------------------------------------------------
(* C13 *)

\* C13: determinism.  Running the full profile again on the same matrix gives
\* the same profile, and calling recommend_pipeline again on the same profile
\* returns the same list (nothing accumulates across calls).
C13_Deterministic ==
    [][/\ (/\ lastCall = "generate_full_profile"
           /\ lastCall' = "generate_full_profile") => profile' = profile
       /\ (/\ lastCall = "recommend_pipeline" /\ raised = "none"
           /\ lastCall' = "recommend_pipeline") => returned' = returned /\ profile' = profile]_vars

-----------------------------------------------------------------------------
(* C14 *)

\* C14: the profile generate_full_profile returned is immutable: a later
\* recommend_pipeline call adds, removes and changes no entry of it.
C14_ProfileImmutable ==
    [][(/\ lastCall = "generate_full_profile" /\ raised = "none"
        /\ lastCall' = "recommend_pipeline") => profile' = profile]_vars

-----------------------------------------------------------------------------
(* raptor/sample_sheet.py: Sample and SampleSheet                            *)
(*                                                                           *)
(* A path is the sequence of its name and its dot-suffixes, so that          *)
(* str.endswith is a comparison of suffixes; '' is the empty sequence.  An   *)
(* optional path (fastq_r2) is <<>> for None and <<path>> for a string.      *)

MaxSheet == 2

Blank == <<>>

Reads == <<"reads", ".fastq", ".gz">>

Notes == <<"notes", ".txt">>

Paths == {Blank, Reads, Notes}

None == <<>>

Some(path) == <<path>>

SampleIds == {"S1", "S2"}

EndsWith(path, ext) ==
    /\ Len(path) >= Len(ext)
    /\ SubSeq(path, Len(path) - Len(ext) + 1, Len(path)) = ext

\* valid_extensions = ['.fastq', '.fq', '.fastq.gz', '.fq.gz']
ValidExtensions == {<<".fastq">>, <<".fq">>, <<".fastq", ".gz">>, <<".fq", ".gz">>}

HasValidExtension(path) == \E ext \in ValidExtensions : EndsWith(path, ext)

\* Sample.is_paired: fastq_r2 is not None
SampleIsPaired(sample) == sample.fastq_r2 # None

\* Python's truth value of fastq_r2: None and '' are false.
Truthy(optional) == optional # None /\ optional[1] # Blank

\* An error message, kept as its text before the colon and the sample ids it
\* is about.
Error(message, ids) == [message |-> message, ids |-> ids]

\* Sample.validate(): the list of errors (is_valid is len(errors) == 0).
SampleValidate(sample, exists) ==
    (IF sample.fastq_r1 \notin exists
     THEN <<Error("R1 file not found", {sample.sample_id})>> ELSE <<>>)
    \o (IF Truthy(sample.fastq_r2) /\ sample.fastq_r2[1] \notin exists
        THEN <<Error("R2 file not found", {sample.sample_id})>> ELSE <<>>)
    \o (IF ~HasValidExtension(sample.fastq_r1)
        THEN <<Error("Invalid R1 file extension", {sample.sample_id})>> ELSE <<>>)
    \o (IF Truthy(sample.fastq_r2) /\ ~HasValidExtension(sample.fastq_r2[1])
        THEN <<Error("Invalid R2 file extension", {sample.sample_id})>> ELSE <<>>)

\* The errors of the samples, in order.
RECURSIVE SampleErrors(_, _)
SampleErrors(samples, exists) ==
    IF samples = <<>> THEN <<>>
    ELSE SampleValidate(Head(samples), exists) \o SampleErrors(Tail(samples), exists)

\* duplicates = set([x for x in sample_ids if sample_ids.count(x) > 1])
Duplicates(samples) ==
    {samples[i].sample_id : i \in {i \in DOMAIN samples :
        \E j \in DOMAIN samples : j # i /\ samples[j].sample_id = samples[i].sample_id}}

\* SampleSheet.validate(check_files): (is_valid, errors)
SheetValidate(samples, exists, check_files) ==
    IF Len(samples) = 0
    THEN [is_valid |-> FALSE, errors |-> <<Error("Sample sheet is empty", {})>>]
    ELSE LET errors ==
                 (IF Duplicates(samples) # {}
                  THEN <<Error("Duplicate sample IDs", Duplicates(samples))>> ELSE <<>>)
                 \o (IF check_files THEN SampleErrors(samples, exists) ELSE <<>>)
         IN  [is_valid |-> Len(errors) = 0, errors |-> errors]

-----------------------------------------------------------------------------
(* pipelines/quick_salmon and quick_kallisto: the pipeline constructors      *)

Methods == {"salmon", "kallisto"}

\* What the --index path is: nothing, a file, a directory, a directory with
\* versionInfo.json.
Indexes == {"missing", "file", "directory", "salmon index"}

IndexExists(index) == index # "missing"

IndexIsDir(index) == index \in {"directory", "salmon index"}

\* The keys of config that the constructors read.
Configs == SUBSET {"fragment_length", "fragment_sd"}

\* The index checks of _validate_inputs.
IndexErrors(method, index) ==
    IF ~IndexExists(index) THEN <<Error("index not found", {})>>
    ELSE IF method = "salmon" /\ index # "salmon index"
         THEN <<Error("Invalid Salmon index (missing versionInfo.json)", {})>>
         ELSE <<>>

\* FragmentCheckMutant: the error is raised only if both parameters are absent.
FragmentCheckMutant(method, is_paired, config) ==
    IF method = "kallisto" /\ ~is_paired
       /\ ("fragment_length" \notin config /\ "fragment_sd" \notin config)
    THEN <<Error("Single-end reads detected! Kallisto REQUIRES --fragment-length", {})>>
    ELSE <<>>

\* QuickKallistoPipeline._validate_inputs, "Check single-end requirements":
\* frag_len is None or frag_sd is None.  QuickSalmonPipeline has no such check.
FragmentCheck(method, is_paired, config) ==
    IF method = "kallisto" /\ ~is_paired
       /\ ("fragment_length" \notin config \/ "fragment_sd" \notin config)
    THEN <<Error("Single-end reads detected! Kallisto REQUIRES --fragment-length", {})>>
    ELSE <<>>

\* _validate_inputs: the errors collected; any error raises ValueError.
ValidateInputs(method, sh, exists, config, index) ==
    IndexErrors(method, index)
    \o (LET v == SheetValidate(sh.samples, exists, TRUE)
        IN  IF v.is_valid THEN <<>> ELSE v.errors)
    \o FragmentCheck(method, sh.is_paired, config)

-----------------------------------------------------------------------------
(* The sample sheets and file systems of the model *)

\* The first two samples of a sheet are free; a later one has the files of
\* the second and its own id.
SampleAt(k, second_id, first, second) ==
    IF k = 1 THEN [sample_id |-> "S1", fastq_r1 |-> first[1], fastq_r2 |-> first[2]]
    ELSE [sample_id |-> IF k = 2 THEN second_id ELSE ToString(k),
          fastq_r1 |-> second[1], fastq_r2 |-> second[2]]

\* The files of a sample: a path, and a second path in a paired-end sheet.
SampleFiles(is_paired) ==
    Paths \X (IF is_paired THEN {Some(path) : path \in Paths} ELSE {None})

Sheets ==
    UNION {{[is_paired |-> is_paired,
             samples |-> [k \in 1..n |-> SampleAt(k, second_id, first, second)]] :
                second_id \in SampleIds,
                first \in SampleFiles(is_paired), second \in SampleFiles(is_paired)} :
           n \in 0..MaxSheet, is_paired \in BOOLEAN}

\* The FASTQ files on disk; '' never exists.
FileSystems == SUBSET (Paths \ {Blank})

\* sheet = SampleSheet(path) on some file system.
InitQuant ==
    /\ sheet \in Sheets
    /\ fs \in {[exists |-> exists, output_dir |-> FALSE, quant |-> {}, counts |-> {},
                tpm |-> {}, sample_info |-> <<>>] : exists \in FileSystems}
    /\ pipe = [state |-> "none", method |-> "none", results |-> <<>>]
    /\ qcall = [op |-> "none"]
    /\ ProfilerIdle
    /\ MLIdle

\* sheet.validate(check_files)
Validate ==
    /\ qcall.op # "quick_count"
    /\ \E check_files \in BOOLEAN :
          qcall' = [op |-> "validate", check_files |-> check_files,
                    result |-> SheetValidate(sheet.samples, fs.exists, check_files)]
    /\ UNCHANGED <<sheet, fs, pipe>>
    /\ UNCHANGED <<pvars, mlvars>>

\* pipeline = QuickSalmonPipeline(...) / QuickKallistoPipeline(...):
\* _validate_inputs, then the output directories and an empty self.results.
\* A session of the model builds one pipeline.
Construct ==
    /\ qcall.op # "quick_count"
    /\ pipe.state = "none"
    /\ \E method \in Methods, config \in Configs, index \in Indexes :
          \E errors \in {ValidateInputs(method, sheet, fs.exists, config, index)} :
             /\ qcall' = [op |-> "construct", method |-> method, config |-> config,
                          index |-> index,
                          exc |-> IF errors = <<>> THEN "none" ELSE "ValueError"]
             /\ IF errors = <<>>
                THEN /\ pipe' = [state |-> "constructed", method |-> method,
                                 results |-> <<>>]
                     /\ fs' = [fs EXCEPT !.output_dir = TRUE]
                ELSE UNCHANGED <<pipe, fs>>
    /\ UNCHANGED sheet
    /\ UNCHANGED <<pvars, mlvars>>

-----------------------------------------------------------------------------
(* QuickSalmonPipeline.run / QuickKallistoPipeline.run *)

\* self.results never holds more than MaxResults results in the model.
MaxResults == 2

\* What the external tool does on one sample: exits 0 and leaves its
\* quant.sf / abundance.tsv, exits 0 without it, exits non-zero, runs over the
\* hour, or cannot be started.
Outcomes == {"ok", "ok_no_output", "nonzero", "timeout", "exception"}

ToolSucceeded(outcome) == outcome \in {"ok", "ok_no_output"}

\* SalmonResult / KallistoResult, the fields that run() reads; error_message
\* is "" unless given.  "stderr[:500]" and "str(e)" stand for the text the tool
\* or the exception carries.
Result(sample_id, success, error_message) ==
    [sample_id |-> sample_id, success |-> success, error_message |-> error_message]

\* RunQuantMutant: an exception of subprocess.run is not caught.
RunQuantMutant(sample, outcome) ==
    CASE outcome = "nonzero" ->
            [exc |-> "none", result |-> Result(sample.sample_id, FALSE, "stderr[:500]")]
      [] outcome = "timeout" ->
            [exc |-> "none", result |-> Result(sample.sample_id, FALSE, "Timeout after 1 hour")]
      [] outcome = "exception" ->
            [exc |-> "Exception", result |-> <<>>]
      [] OTHER ->
            [exc |-> "none", result |-> Result(sample.sample_id, TRUE, "")]

\* _run_salmon_quant / _run_kallisto_quant: every path of the try block
\* returns a result.
RunQuant(sample, outcome) ==
    CASE outcome = "nonzero" ->
            [exc |-> "none", result |-> Result(sample.sample_id, FALSE, "stderr[:500]")]
      [] outcome = "timeout" ->
            [exc |-> "none", result |-> Result(sample.sample_id, FALSE, "Timeout after 1 hour")]
      [] outcome = "exception" ->
            [exc |-> "none", result |-> Result(sample.sample_id, FALSE, "str(e)")]
      [] OTHER ->
            [exc |-> "none", result |-> Result(sample.sample_id, TRUE, "")]

\* The order in which the results arrive: the sheet's order, or any order of
\* completion with parallel=True and more than one sample.
Orders(n, parallel) ==
    IF parallel /\ n > 1
    THEN {order \in [1..n -> 1..n] : \A i, j \in 1..n : order[i] = order[j] => i = j}
    ELSE {[k \in 1..n |-> k]}

\* The loop of run(): self.results.append(result) for each sample; an
\* exception leaves the loop.
RECURSIVE RunSamples(_, _, _, _, _)
RunSamples(samples, order, outcomes, k, results) ==
    IF k > Len(samples) THEN [results |-> results, exc |-> "none"]
    ELSE CHOOSE after \in
            {IF o.exc # "none" THEN [results |-> results, exc |-> o.exc]
             ELSE RunSamples(samples, order, outcomes, k + 1, Append(results, o.result)) :
                o \in {RunQuant(samples[order[k]], outcomes[order[k]])}} : TRUE

\* The output files the tool has left after the loop.
QuantFiles(samples, outcomes, quant) ==
    quant \cup {samples[k].sample_id : k \in {k \in DOMAIN samples : outcomes[k] = "ok"}}

\* _combine_counts: the columns of counts.csv and tpm.csv, one for each
\* successful result whose quant file exists.
CombineCounts(results, quant) ==
    {results[k].sample_id : k \in {k \in DOMAIN results :
        results[k].success /\ results[k].sample_id \in quant}}

\* _save_sample_info: one row for each result.
SaveSampleInfo(results) ==
    [k \in DOMAIN results |-> [sample_id |-> results[k].sample_id,
                               success |-> results[k].success]]

Failures(results) == {k \in DOMAIN results : ~results[k].success}

\* The part of run() after the loop: the files written and the value returned.
Finish(results, f) ==
    IF \E k \in DOMAIN results : results[k].success
    THEN [fs |-> [f EXCEPT !.counts = IF CombineCounts(results, f.quant) = {}
                                      THEN @ ELSE CombineCounts(results, f.quant),
                           !.tpm = IF CombineCounts(results, f.quant) = {}
                                   THEN @ ELSE CombineCounts(results, f.quant),
                           !.sample_info = SaveSampleInfo(results)],
          returned |-> Failures(results) = {}]
    ELSE [fs |-> f, returned |-> FALSE]

\* run(parallel): results is self.results at the call.
RunCall(results, samples, f, installed, order, outcomes) ==
    IF ~installed
    THEN [results |-> results, fs |-> f, returned |-> FALSE, exc |-> "none"]
    ELSE CHOOSE call \in
            {IF loop.exc # "none"
             THEN [results |-> loop.results,
                   fs |-> [f EXCEPT !.quant = QuantFiles(samples, outcomes, @)],
                   returned |-> FALSE, exc |-> loop.exc]
             ELSE CHOOSE done \in
                    {[results |-> loop.results, fs |-> end.fs,
                      returned |-> end.returned, exc |-> "none"] :
                        end \in {Finish(loop.results,
                                        [f EXCEPT !.quant = QuantFiles(samples, outcomes, @)])}} :
                    TRUE :
                loop \in {RunSamples(samples, order, outcomes, 1, results)}} : TRUE

\* cleanup(keep_quant): shutil.rmtree(self.quant_dir)
Cleanup(f, keep_quant) == IF keep_quant THEN f ELSE [f EXCEPT !.quant = {}]

\* pipeline.run(parallel)
Run ==
    /\ pipe.state = "constructed"
    /\ Len(pipe.results) + Len(sheet.samples) <= MaxResults
    /\ \E installed \in BOOLEAN :
          IF ~installed
          THEN /\ qcall' = [op |-> "run", installed |-> FALSE,
                            before |-> Len(pipe.results), returned |-> FALSE,
                            exc |-> "none"]
               /\ UNCHANGED <<pipe, fs>>
          ELSE \E parallel \in BOOLEAN,
                  outcomes \in [1..Len(sheet.samples) -> Outcomes] :
                  \E order \in Orders(Len(sheet.samples), parallel) :
                     \E call \in {RunCall(pipe.results, sheet.samples, fs, TRUE,
                                          order, outcomes)} :
                        /\ pipe' = [pipe EXCEPT !.results = call.results]
                        /\ fs' = call.fs
                        /\ qcall' = [op |-> "run", installed |-> TRUE,
                                     before |-> Len(pipe.results),
                                     order |-> order, outcomes |-> outcomes,
                                     returned |-> call.returned, exc |-> call.exc]
    /\ UNCHANGED sheet
    /\ UNCHANGED <<pvars, mlvars>>

-----------------------------------------------------------------------------
(* raptor quick-count *)

\* The index test of quick_count: a directory for salmon, a file for kallisto.
IndexAccepted(method, index) ==
    IF method = "salmon" THEN IndexIsDir(index) ELSE index = "file"

\* run_quick_salmon / run_quick_kallisto build the config; the kallisto one
\* carries --fragment-length and --fragment-sd, which have defaults.
QuickConfig(method) ==
    IF method = "kallisto" THEN {"fragment_length", "fragment_sd"} ELSE {}

\* The end of a quick-count process: its exit status, whether run() was
\* called and what it returned.
Exit(method, index, status, ran, run_returned) ==
    [op |-> "quick_count", method |-> method, index |-> index, exit |-> status,
     ran |-> ran, run_returned |-> run_returned]

\* raptor quick-count -m method -s sheet -i index [--validate-only] [--keep-quant]
\* The command is a process of its own: it starts from the sheet and the files
\* on disk, and nothing follows its exit.
QuickCount ==
    /\ qcall.op = "none"
    /\ \E method \in Methods, index \in Indexes :
          IF ~IndexExists(index)
          THEN \* click.Path(exists=True): a usage error
               /\ qcall' = Exit(method, index, 2, FALSE, FALSE)
               /\ UNCHANGED fs
          ELSE IF ~IndexAccepted(method, index)
          THEN /\ qcall' = Exit(method, index, 1, FALSE, FALSE)
               /\ UNCHANGED fs
          ELSE IF ~SheetValidate(sheet.samples, fs.exists, TRUE).is_valid
          THEN /\ qcall' = Exit(method, index, 1, FALSE, FALSE)
               /\ fs' = [fs EXCEPT !.output_dir = TRUE]
          ELSE \/ \* --validate-only
                  /\ qcall' = Exit(method, index, 0, FALSE, FALSE)
                  /\ fs' = [fs EXCEPT !.output_dir = TRUE]
               \/ IF ValidateInputs(method, sheet, fs.exists, QuickConfig(method),
                                    index) # <<>>
                  THEN \* the constructor's ValueError, caught by quick_count
                       /\ qcall' = Exit(method, index, 1, FALSE, FALSE)
                       /\ fs' = [fs EXCEPT !.output_dir = TRUE]
                  ELSE \E installed \in BOOLEAN, keep_quant \in BOOLEAN,
                          outcomes \in [1..Len(sheet.samples) -> Outcomes] :
                          \E call \in {RunCall(<<>>, sheet.samples,
                                               [fs EXCEPT !.output_dir = TRUE],
                                               installed,
                                               [k \in 1..Len(sheet.samples) |-> k],
                                               outcomes)} :
                             /\ fs' = Cleanup(call.fs, keep_quant)
                             /\ qcall' = Exit(method, index,
                                              IF call.exc = "none" /\ call.returned
                                              THEN 0 ELSE 1,
                                              call.exc = "none", call.returned)
    /\ UNCHANGED <<sheet, pipe>>
    /\ UNCHANGED <<pvars, mlvars>>

NextQuant == Validate \/ Construct \/ Run \/ QuickCount

SpecQuant == InitQuant /\ [][NextQuant]_vars

-----------------------------------------------------------------------------
(* Vocabulary of the quantification claims *)

RunReturned == qcall.op = "run" /\ qcall.exc = "none"

\* The k-th result appended by the last run().
NewResult(k) == pipe.results[qcall.before + k]

SheetIds == {sheet.samples[k].sample_id : k \in DOMAIN sheet.samples}

\* The FASTQ files of a sample with the two messages that report them.
FastqFiles(sample) ==
    {<<sample.fastq_r1, "R1 file not found", "Invalid R1 file extension">>}
    \cup (IF SampleIsPaired(sample)
          THEN {<<sample.fastq_r2[1], "R2 file not found", "Invalid R2 file extension">>}
          ELSE {})

FileMessages ==
    {"R1 file not found", "Invalid R1 file extension",
     "R2 file not found", "Invalid R2 file extension"}

\* The message a failure of the tool is reported with.
ErrorMessage(outcome) ==
    CASE outcome = "nonzero" -> "stderr[:500]"
      [] outcome = "timeout" -> "Timeout after 1 hour"
      [] outcome = "exception" -> "str(e)"

HasError(errors, message, id) ==
    \E k \in DOMAIN errors : errors[k].message = message /\ id \in errors[k].ids

-----------------------------------------------------------------------------
(* C15 *)

\* C15: in run() of the quantification pipelines, a failure of the external
\* tool on a sample (non-zero exit, timeout, exception) is recorded as a
\* result with success = False and the error message of that failure (the
\* tool's stderr, the timeout text, the exception's text), and the batch is not
\* aborted: run() ends without an exception and has appended one result for
\* every sample of the sheet.
C15_FailureRecorded ==
    (qcall.op = "run" /\ qcall.installed) =>
        /\ qcall.exc = "none"
        /\ Len(pipe.results) = qcall.before + Len(sheet.samples)
        /\ \A k \in DOMAIN sheet.samples :
              /\ NewResult(k).sample_id = sheet.samples[qcall.order[k]].sample_id
              /\ ~ToolSucceeded(qcall.outcomes[qcall.order[k]]) =>
                    /\ ~NewResult(k).success
                    /\ NewResult(k).error_message = ErrorMessage(qcall.outcomes[qcall.order[k]])

\* The tool raised on the first sample of a two-sample sheet and the second
\* sample was quantified all the same.
C15_Witness ==
    /\ qcall.op = "run" /\ qcall.installed
    /\ Len(sheet.samples) = 2
    /\ qcall.before = 0
    /\ qcall.order = <<1, 2>>
    /\ qcall.outcomes = <<"exception", "ok">>
    /\ Len(pipe.results) = 2
    /\ ~pipe.results[1].success /\ pipe.results[1].error_message = "str(e)"
    /\ pipe.results[2].success /\ pipe.results[2].sample_id = sheet.samples[2].sample_id

-----------------------------------------------------------------------------
(* C16 *)

\* C16: run() returns True if and only if the tool is installed and every
\* sample of the sheet produced a successful result; with the tool missing no
\* sample is processed; and quick-count exits with status 0 exactly when
\* run() returned True.
C16_TrueIffAllSucceeded ==
    /\ RunReturned =>
          /\ qcall.returned <=>
                (qcall.installed /\ \A k \in DOMAIN sheet.samples : NewResult(k).success)
          /\ ~qcall.installed => Len(pipe.results) = qcall.before
    /\ qcall.op = "quick_count" =>
          ((qcall.exit = 0) <=> (qcall.ran /\ qcall.run_returned))

-----------------------------------------------------------------------------
(* C17 *)

\* C17: whenever run() returned True (and quick-count reported success),
\* counts.csv, tpm.csv and sample_info.csv have been written, counts.csv has
\* exactly one column per sample of the sheet, and every sample with
\* success = True in sample_info.csv has a column in counts.csv.
C17_OutputsWritten ==
    ((RunReturned /\ qcall.returned)
     \/ (qcall.op = "quick_count" /\ qcall.ran /\ qcall.run_returned)) =>
        /\ fs.counts # {} /\ fs.tpm # {} /\ fs.sample_info # <<>>
        /\ fs.counts = SheetIds
        /\ \A k \in DOMAIN fs.sample_info :
              fs.sample_info[k].success => fs.sample_info[k].sample_id \in fs.counts

-----------------------------------------------------------------------------
(* C18 *)

\* What validate(check_files) returned, against the sheet and the files.
ValidateContract ==
    /\ qcall.result.is_valid <=> (qcall.result.errors = <<>>)
    /\ sheet.samples = <<>> =>
          qcall.result = [is_valid |-> FALSE,
                          errors |-> <<Error("Sample sheet is empty", {})>>]
    /\ \A id \in Duplicates(sheet.samples) :
          HasError(qcall.result.errors, "Duplicate sample IDs", id)
    /\ qcall.check_files =>
          \A k \in DOMAIN sheet.samples : \A file \in FastqFiles(sheet.samples[k]) :
             /\ file[1] \notin fs.exists =>
                   HasError(qcall.result.errors, file[2], sheet.samples[k].sample_id)
             /\ ~HasValidExtension(file[1]) =>
                   HasError(qcall.result.errors, file[3], sheet.samples[k].sample_id)
    /\ ~qcall.check_files =>
          \A k \in DOMAIN qcall.result.errors :
             qcall.result.errors[k].message \notin FileMessages

\* C18: SampleSheet.validate returns (is_valid, errors) with is_valid true if
\* and only if errors is empty; an empty sheet yields (False, ["Sample sheet
\* is empty"]); a sample id occurring more than once yields an error; with
\* check_files=True every sample whose FASTQ file is missing or has an
\* invalid extension contributes its errors, with check_files=False no file
\* check is made; and validate does not modify the sheet's samples.
C18_Validate ==
    [][qcall'.op = "validate" => (ValidateContract' /\ sheet' = sheet)]_vars

-----------------------------------------------------------------------------
(* C19 *)

\* C19: for a single-end sheet, constructing QuickKallistoPipeline without
\* both fragment_length and fragment_sd fails with ValueError before any
\* output directory is created and before any quantification can run (no
\* pipeline exists); for a paired-end sheet with an index and valid files the
\* parameters are not needed.
C19_FragmentParameters ==
    [][(qcall'.op = "construct" /\ qcall'.method = "kallisto") =>
          /\ (~sheet.is_paired
              /\ ~({"fragment_length", "fragment_sd"} \subseteq qcall'.config)) =>
                 /\ qcall'.exc = "ValueError"
                 /\ pipe' = pipe /\ pipe'.state = "none"
                 /\ fs' = fs
          /\ (sheet.is_paired /\ IndexExists(qcall'.index)
              /\ SheetValidate(sheet.samples, fs.exists, TRUE).is_valid) =>
                 /\ qcall'.exc = "none"
                 /\ pipe'.state = "constructed"]_vars

\* A valid single-end sheet, an index, fragment_length without fragment_sd:
\* the constructor raised and left no directory.
C19_Witness ==
    /\ qcall.op = "construct" /\ qcall.method = "kallisto"
    /\ ~sheet.is_paired
    /\ SheetValidate(sheet.samples, fs.exists, TRUE).is_valid
    /\ qcall.index = "file"
    /\ qcall.config = {"fragment_length"}
    /\ qcall.exc = "ValueError"
    /\ pipe.state = "none"
    /\ ~fs.output_dir

-----------------------------------------------------------------------------
(* The ML recommender (ml_recommender.MLPipelineRecommender).  The module is  *)
(* used by examples/example_ml_workflow.py; its behaviour is taken from the   *)
(* component design of the ML Recommender and from the error taxonomy.        *)

\* Benchmark corpora are told apart by their number of examples.
MaxCorpus == 3

\* The fewest examples a corpus must have to be trained on.
MinCorpus == 2

\* recommend(profile, top_k) is called with top_k in 1..MaxTopK.
MaxTopK == 3

ModelTypes == {"random_forest", "gradient_boosting"}

Corpora == 0..MaxCorpus

TestProfiles == {"profile A", "profile B"}

\* A fitted classifier: its family and the corpus it was fitted on.
Classifier(model_type, corpus) == [model_type |-> model_type, corpus |-> corpus]

NoClassifier == [model_type |-> "none", corpus |-> 0]

Classifiers == {Classifier(t, c) : t \in ModelTypes, c \in MinCorpus..MaxCorpus}

\* MLPipelineRecommender(model_type): Untrained; the model directory is empty
\* or holds a model saved by an earlier process.
InitML ==
    /\ \E model_type \in ModelTypes, storage \in {NoClassifier} \cup Classifiers :
          ml = [state |-> "Untrained", model_type |-> model_type,
                classifier |-> NoClassifier, storage |-> storage]
    /\ mlcall = [op |-> "none"]
    /\ ProfilerIdle
    /\ QuantIdle

\* train_from_benchmarks: the recommender and the error after training on a
\* corpus; too small a corpus fails and leaves the recommender as it was.
TrainCall(m, corpus) ==
    IF corpus < MinCorpus
    THEN [ml |-> m, exc |-> "InsufficientTrainingDataError"]
    ELSE [ml |-> [m EXCEPT !.state = "Trained",
                           !.classifier = Classifier(m.model_type, corpus)],
          exc |-> "none"]

\* load_model(dir): Trained from durable storage; nothing to load is an error.
LoadCall(m) ==
    IF m.storage = NoClassifier
    THEN [ml |-> m, exc |-> "FileNotFoundError"]
    ELSE [ml |-> [m EXCEPT !.state = "Trained", !.classifier = m.storage,
                           !.model_type = m.storage.model_type],
          exc |-> "none"]

\* save_model(dir) persists a Trained recommender.
SaveCall(m) ==
    IF m.state # "Trained"
    THEN [ml |-> m, exc |-> "UntrainedModelError"]
    ELSE [ml |-> [m EXCEPT !.storage = m.classifier], exc |-> "none"]

\* A recommendation: where it comes from, and how many pipelines it names
\* (primary + alternatives).
Served(source, classifier, given, top_k) ==
    [source |-> source, classifier |-> classifier, profile |-> given,
     pipelines |-> top_k]

NotServed == [source |-> "none", classifier |-> NoClassifier, profile |-> "none",
              pipelines |-> 0]

\* RecommendFallbackMutant: an Untrained recommender answers with the
\* rule-based recommender.
RecommendFallbackMutant(m, given, top_k) ==
    IF m.state # "Trained"
    THEN [exc |-> "none", features_extracted |-> FALSE,
          result |-> Served("rule-based", NoClassifier, profile, top_k)]
    ELSE [exc |-> "none", features_extracted |-> TRUE,
          result |-> Served("classifier", m.classifier, given, top_k)]

\* recommend(profile, top_k): requires Trained; otherwise the not-trained
\* error before anything is computed.
RecommendCall(m, given, top_k) ==
    IF m.state # "Trained"
    THEN [exc |-> "UntrainedModelError", features_extracted |-> FALSE,
          result |-> NotServed]
    ELSE [exc |-> "none", features_extracted |-> TRUE,
          result |-> Served("classifier", m.classifier, given, top_k)]

TrainFromBenchmarks ==
    /\ \E corpus \in Corpora : \E o \in {TrainCall(ml, corpus)} :
          /\ ml' = o.ml
          /\ mlcall' = [op |-> "train_from_benchmarks", corpus |-> corpus,
                        exc |-> o.exc]
    /\ UNCHANGED <<pvars, qvars>>

LoadModel ==
    /\ \E o \in {LoadCall(ml)} :
          /\ ml' = o.ml
          /\ mlcall' = [op |-> "load_model", exc |-> o.exc]
    /\ UNCHANGED <<pvars, qvars>>

SaveModel ==
    /\ \E o \in {SaveCall(ml)} :
          /\ ml' = o.ml
          /\ mlcall' = [op |-> "save_model", exc |-> o.exc]
    /\ UNCHANGED <<pvars, qvars>>

Recommend ==
    /\ \E given \in TestProfiles, top_k \in 1..MaxTopK :
          \E o \in {RecommendCall(ml, given, top_k)} :
             mlcall' = [op |-> "recommend", profile |-> given, top_k |-> top_k,
                        exc |-> o.exc, features_extracted |-> o.features_extracted,
                        result |-> o.result]
    /\ UNCHANGED ml
    /\ UNCHANGED <<pvars, qvars>>

NextML == TrainFromBenchmarks \/ LoadModel \/ SaveModel \/ Recommend

SpecML == InitML /\ [][NextML]_vars

-----------------------------------------------------------------------------
(* C20 *)

\* C20: the ML recommender starts Untrained; it becomes Trained only through
\* a train_from_benchmarks or load_model call that succeeds; recommend() is
\* served, by the classifier, only in the Trained state; in the Untrained
\* state recommend() fails with the not-trained error, extracts no features,
\* returns nothing, leaves the state Untrained and never answers from the
\* rule-based path.
C20_TwoStateMachine ==
    [][/\ mlcall.op = "none" => ml.state = "Untrained"
       /\ ml.state \in {"Untrained", "Trained"}
       /\ (ml.state = "Untrained" /\ ml'.state = "Trained") =>
             /\ mlcall'.op \in {"train_from_benchmarks", "load_model"}
             /\ mlcall'.exc = "none"
       /\ (mlcall'.op = "recommend" /\ ml.state = "Untrained") =>
             /\ mlcall'.exc = "UntrainedModelError"
             /\ ~mlcall'.features_extracted
             /\ mlcall'.result = NotServed
             /\ ml' = ml
       /\ (mlcall'.op = "recommend" /\ mlcall'.exc = "none") =>
             /\ ml.state = "Trained"
             /\ mlcall'.result.source = "classifier"
             /\ mlcall'.result.classifier = ml.classifier]_vars

\* recommend() was refused on an Untrained recommender although a saved model
\* was there to load.
C20_Witness ==
    /\ mlcall.op = "recommend"
    /\ mlcall.exc = "UntrainedModelError"
    /\ ml.state = "Untrained"
    /\ ml.storage # NoClassifier
    /\ mlcall.result = NotServed

-----------------------------------------------------------------------------
(* The quality flags of the package profiler (raptor/profiler.py, which the  *)
(* tests exercise as RNAseqDataProfiler.profile()).  The module is not part  *)
(* of the sources; step 8 of the Data Profiler's algorithm is followed.  The *)
(* step works on the descriptors the earlier steps have written.             *)

\* zero_inflation in percent and library_size_cv in hundredths; the two
\* thresholds lie in a band each, 0.5-0.7 and 0.3-0.5.
ZeroBandLow == 50

ZeroBandHigh == 70

CVBandLow == 30

CVBandHigh == 50

FlagZeroInflation == "high zero inflation - consider filtering"

FlagLibrarySizes == "uneven library sizes"

FlagOutliers == "N potential outlier sample(s) detected"

\* The descriptors of the model: sample counts around 3, zero inflation and
\* CV below, inside and above their bands, with or without PCA outliers.
DescriptorSampleCounts == {1, 2, 3, MaxSamples}

DescriptorZeroInflations ==
    {0, ZeroBandLow, ZeroBandLow + 1, 60, ZeroBandHigh, ZeroBandHigh + 1, 90, 100}

DescriptorCVs == {0, CVBandLow, CVBandLow + 1, CVBandHigh, CVBandHigh + 1, 95}

Descriptors(n, zero, cv, outliers) ==
    Put(Put(Put(Put(EmptyProfile, "n_samples", n), "zero_inflation", zero),
            "library_size_cv", cv), "potential_outliers", outliers)

\* QualityFlagsMutant: the library-size check is left out.
QualityFlagsMutant(p, zero_threshold, cv_threshold) ==
    SampleCountFlags(p["n_samples"])
    \o (IF p["zero_inflation"] > zero_threshold THEN <<FlagZeroInflation>> ELSE <<>>)
    \o (IF p["potential_outliers"] > 0 THEN <<FlagOutliers>> ELSE <<>>)

\* Step 8: a flag for each of n_samples < 3, zero_inflation above its
\* threshold, library_size_cv above its threshold, any PCA-detected outlier.
QualityFlags(p, zero_threshold, cv_threshold) ==
    SampleCountFlags(p["n_samples"])
    \o (IF p["zero_inflation"] > zero_threshold THEN <<FlagZeroInflation>> ELSE <<>>)
    \o (IF p["library_size_cv"] > cv_threshold THEN <<FlagLibrarySizes>> ELSE <<>>)
    \o (IF p["potential_outliers"] > 0 THEN <<FlagOutliers>> ELSE <<>>)

\* The profile before step 8.
InitFlags ==
    /\ counts = <<>>
    /\ profile \in {Descriptors(n, zero, cv, outliers) :
                        n \in DescriptorSampleCounts, zero \in DescriptorZeroInflations,
                        cv \in DescriptorCVs, outliers \in {0, 1}}
    /\ lastCall = "init"
    /\ raised = "none"
    /\ returned = <<>>
    /\ saved = FALSE
    /\ QuantIdle
    /\ MLIdle

\* Step 8 of profile(), with the thresholds the implementation has fixed
\* inside the bands.
AppendQualityFlags ==
    /\ lastCall = "init"
    /\ \E zero_threshold \in ZeroBandLow..ZeroBandHigh, cv_threshold \in CVBandLow..CVBandHigh :
          profile' = Put(profile, "quality_flags",
                         QualityFlags(profile, zero_threshold, cv_threshold))
    /\ lastCall' = "profile"
    /\ UNCHANGED <<counts, raised, returned, saved>>
    /\ UNCHANGED <<qvars, mlvars>>

NextFlags == AppendQualityFlags

SpecFlags == InitFlags /\ [][NextFlags]_vars

-----------------------------------------------------------------------------
(* C21 *)

Flagged == lastCall = "profile" /\ Has(profile, "quality_flags")

-----------------------------------------------------------------------------
(* The six profiling methods called one by one: each is a public method of   *)
(* RNAseqDataProfiler and can be called in any order, any number of times.   *)

\* The matrices of these calls: well-formed, up to MaxGenes genes and 3
\* samples, for which the exact PCA solver is used.
StepMatrices ==
    UNION {{Matrix(nG, nS, base, 0) : base \in [1..2 -> [1..2 -> {0, 1, 3}]]} :
           nG \in 1..MaxGenes, nS \in 1..3}

InitSteps ==
    /\ counts \in StepMatrices
    /\ profile = EmptyProfile
    /\ lastCall = "init"
    /\ raised = "none"
    /\ returned = <<>>
    /\ saved = FALSE
    /\ QuantIdle
    /\ MLIdle

\* profiler.calculate_basic_stats(), ..., profiler.detect_batch_effects()
CallStep ==
    /\ \E k \in DOMAIN ProfileSteps : \E draw \in SolverDraws(counts) :
          \E o \in {Step(ProfileSteps[k], counts, profile, draw)} :
             /\ profile' = o.profile
             /\ raised' = o.exc
             /\ lastCall' = ProfileSteps[k]
    /\ UNCHANGED <<counts, returned, saved>>
    /\ UNCHANGED <<qvars, mlvars>>

NextSteps == CallStep

SpecSteps == InitSteps /\ [][NextSteps]_vars

-----------------------------------------------------------------------------
(* C23 *)

\* The profile fields each method assigns.
StepFields(name) ==
    CASE name = "calculate_basic_stats" ->
            {"n_genes", "n_samples", "mean_library_size", "median_library_size",
             "library_size_cv", "mean_genes_detected", "zero_percentage"}
      [] name = "calculate_expression_characteristics" ->
            {"mean_expression", "median_expression", "mean_variance",
             "low_expression_genes", "high_expression_genes", "pct_low_expression",
             "pct_high_expression", "expression_range_log10"}
      [] name = "calculate_dispersion" -> {"median_bcv", "mean_bcv"}
      [] name = "calculate_sample_correlation" ->
            {"mean_sample_correlation", "median_sample_correlation",
             "min_sample_correlation"}
      [] name = "calculate_complexity" ->
            {"mean_genes_per_sample", "min_genes_per_sample", "mean_top20_percentage"}
      [] name = "detect_batch_effects" ->
            {"pca_var_explained_pc1", "pca_var_explained_pc2", "potential_outliers"}

StepNames == {ProfileSteps[k] : k \in DOMAIN ProfileSteps}

\* What a method writes when called on a fresh profiler of the same matrix.
OwnOutput(name) == Step(name, counts, EmptyProfile, "value")

\* C23: each of the six profiling methods reads only the count matrix and
\* writes only its own fields: the field sets are pairwise disjoint, a call
\* leaves every field of another method as it was, writes exactly what it
\* writes on a fresh profiler of the same matrix, and leaves the matrix
\* unchanged; so the profile does not depend on the order of the calls.
C23_StepsIndependent ==
    [][lastCall' \in StepNames =>
          \E own \in {OwnOutput(lastCall')}, fields \in {StepFields(lastCall')} :
             /\ counts' = counts
             /\ \A a, b \in StepNames : a # b => StepFields(a) \cap StepFields(b) = {}
             /\ \A f \in DOMAIN profile : f \notin fields =>
                   Has(profile', f) /\ profile'[f] = profile[f]
             /\ \A f \in DOMAIN profile' : f \notin fields => Has(profile, f)
             /\ raised' = own.exc
             /\ \A f \in DOMAIN own.profile :
                   Has(profile', f) /\ profile'[f] = own.profile[f]
             /\ \A f \in fields \cap DOMAIN profile' :
                   Has(own.profile, f) \/ Has(profile, f)]_vars

\* The calls made in the reverse of generate_full_profile's order gave the
\* profile generate_full_profile gives.
C23_Witness ==
    /\ lastCall = "calculate_basic_stats"
    /\ raised = "none"
    /\ NSamples(counts) = 2 /\ NGenes(counts) = 2
    /\ Has(profile, "pca_var_explained_pc2")
    /\ Has(profile, "min_sample_correlation")
    /\ Has(profile, "median_bcv")
    /\ FullProfile(counts, EmptyProfile, "value").exc = "none"
    /\ profile = FullProfile(counts, EmptyProfile, "value").profile

-----------------------------------------------------------------------------
(* C24 *)

\* A list without its gene-filtering advice.
WithoutFilterAdvice(recommendations) ==
    SelectSeq(recommendations, LAMBDA e : e # RecFilterGenes)

\* C24: the zero-inflation rule is advisory and on the profiler's scale: for
\* a profiled well-formed matrix, the advice to filter lowly expressed genes
\* is in the returned list exactly when strictly more than 70% of the entries
\* of the matrix are zero, the advice names no pipeline, and the rest of the
\* list, in its order, is the list the other rules give without the rule.
C24_ZeroRuleAdvisory ==
    (Returned /\ Profiled /\ WellFormed(counts)) =>
        /\ In(RecFilterGenes, returned) <=>
              (100 * Cardinality(ZeroCells(counts)) > ZeroThreshold * Cardinality(Cells(counts)))
        /\ ~IsPipelineEntry(RecFilterGenes)
        /\ WithoutFilterAdvice(returned) =
              Recommendations(Put(profile, "zero_percentage", Ratio(0, 1)))
        /\ Len(returned) <= Len(WithoutFilterAdvice(returned)) + 1

\* Only one gene of many is expressed: the advice is given, and it is the
\* whole difference to the list without the rule.
C24_Witness ==
    /\ Returned /\ Profiled /\ WellFormed(counts)
    /\ NGenes(counts) > 2
    /\ 100 * Cardinality(ZeroCells(counts)) > ZeroThreshold * Cardinality(Cells(counts))
    /\ In(RecFilterGenes, returned)
    /\ Len(returned) = Len(WithoutFilterAdvice(returned)) + 1


-----------------------------------------------------------------------------
(* raptor/sample_sheet.py: loading a sample sheet file                       *)

\* The header names of the file, stripped and lower-cased (line 204).  pandas
\* makes the names of a header unique, so a header is a set.
HeaderNames == {"sample_id", "sample", "fastq_r1", "r1", "fastq_2", "fastq", "condition"}

\* COLUMN_ALIASES, for the names above, in the order of the class.
ColumnAliases ==
    [sample_id |-> <<"sample", "sample_id">>,
     fastq_r1  |-> <<"fastq_r1", "r1">>,
     fastq_r2  |-> <<"fastq_2">>,
     fastq     |-> <<"fastq">>,
     condition |-> <<"condition">>]

\* The first alias of a standard name that is a column, if any (the break
\* of line 225).
FirstAlias(standard_name, columns) ==
    LET aliases == ColumnAliases[standard_name]
        present == {k \in 1..Len(aliases) : aliases[k] \in columns}
    IN  IF present = {} THEN {}
        ELSE {aliases[CHOOSE k \in present : \A other \in present : k <= other]}

\* _normalize_columns(): column_map, as the renamed name of each column.
ColumnMap(columns) ==
    [c \in columns |->
        IF \E standard_name \in DOMAIN ColumnAliases : c \in FirstAlias(standard_name, columns)
        THEN CHOOSE standard_name \in DOMAIN ColumnAliases : c \in FirstAlias(standard_name, columns)
        ELSE c]

NormalizedColumns(columns) == {ColumnMap(columns)[c] : c \in columns}

\* A cell read with dtype=str: a path, white space, or EmptyCell for an empty cell.
Whitespace == <<" ">>

EmptyCell == <<"NaN">>

CellValues == {Reads, Whitespace, EmptyCell}

\* str(cell).strip()
StrStrip(cell) ==
    IF cell = EmptyCell THEN <<"nan">> ELSE SelectSeq(cell, LAMBDA e : e # " ")

\* The row k of a file with the given columns: its identifier under the
\* identifier columns, one cell under the R2 columns and another under the
\* other columns.
FileRow(columns, k, cell, cell_r2) ==
    [c \in columns |->
        IF c \in {"sample_id", "sample"} THEN <<"S", ToString(k)>>
        ELSE IF c = "fastq_2" THEN cell_r2 ELSE cell]

\* The files: pandas renames a duplicated name, and renaming "sample" next to
\* a "sample_id" column would produce one, so no header has both.
SheetFiles ==
    {[present |-> FALSE, columns |-> {}, rows |-> <<>>]}
    \cup UNION {{[present |-> TRUE, columns |-> columns,
                  rows |-> [k \in 1..n |-> IF k = 1 THEN FileRow(columns, k, cell, cell_r2)
                                           ELSE FileRow(columns, k, cell_r2, cell)]] :
                     cell \in CellValues, cell_r2 \in CellValues, n \in 1..MaxSheet} :
                columns \in {h \in SUBSET HeaderNames : ~{"sample_id", "sample"} \subseteq h}}
    \cup {[present |-> TRUE, columns |-> columns, rows |-> <<>>] :
             columns \in {h \in SUBSET HeaderNames : ~{"sample_id", "sample"} \subseteq h}}

\* The value of a row under a normalized column name.
RowGet(row, columns, name) ==
    row[CHOOSE c \in columns : ColumnMap(columns)[c] = name]

DetectPairedMutant(columns) ==
    LET has_r1 == "fastq_r1" \in columns
        has_r2 == "fastq_r2" \in columns
        has_single == "fastq" \in columns
    IN  IF has_single THEN "single-end"
        ELSE IF has_r1 /\ has_r2 THEN "paired-end"
        ELSE IF has_r1 /\ ~has_r2 THEN "single-end from fastq_r1"
        ELSE "ValueError"

\* _detect_read_type() on the normalized columns: the read type, with the
\* column the single-end file is taken from, or the exception.
DetectReadType(columns) ==
    LET has_r1 == "fastq_r1" \in columns
        has_r2 == "fastq_r2" \in columns
        has_single == "fastq" \in columns
    IN  IF has_r1 /\ has_r2 THEN "paired-end"
        ELSE IF has_single THEN "single-end"
        ELSE IF has_r1 /\ ~has_r2 THEN "single-end from fastq_r1"
        ELSE "ValueError"

ParseBlankAsNoneMutant(file, read_type) ==
    [k \in 1..Len(file.rows) |->
        LET row == file.rows[k]
            sample_id == StrStrip(RowGet(row, file.columns, "sample_id"))
        IN  IF read_type = "paired-end"
            THEN [sample_id |-> sample_id,
                  fastq_r1 |-> StrStrip(RowGet(row, file.columns, "fastq_r1")),
                  fastq_r2 |-> IF StrStrip(RowGet(row, file.columns, "fastq_r2")) = Blank
                               THEN None
                               ELSE Some(StrStrip(RowGet(row, file.columns, "fastq_r2")))]
            ELSE [sample_id |-> sample_id,
                  fastq_r1 |-> StrStrip(RowGet(row, file.columns,
                                   IF read_type = "single-end" THEN "fastq" ELSE "fastq_r1")),
                  fastq_r2 |-> None]]

\* _parse_samples(): one Sample per row.
ParseSamples(file, read_type) ==
    [k \in 1..Len(file.rows) |->
        LET row == file.rows[k]
            sample_id == StrStrip(RowGet(row, file.columns, "sample_id"))
        IN  IF read_type = "paired-end"
            THEN [sample_id |-> sample_id,
                  fastq_r1 |-> StrStrip(RowGet(row, file.columns, "fastq_r1")),
                  fastq_r2 |-> Some(StrStrip(RowGet(row, file.columns, "fastq_r2")))]
            ELSE [sample_id |-> sample_id,
                  fastq_r1 |-> StrStrip(RowGet(row, file.columns,
                                   IF read_type = "single-end" THEN "fastq" ELSE "fastq_r1")),
                  fastq_r2 |-> None]]

\* SampleSheet(filepath): __init__ and _load().  The result is the object, or
\* the exception that leaves the caller without one.
LoadSheet(file) ==
    IF ~file.present THEN [exc |-> "FileNotFoundError", read_type |-> "none"]
    ELSE LET columns == NormalizedColumns(file.columns)
             read_type == DetectReadType(columns)
         IN  IF read_type = "ValueError" THEN [exc |-> "ValueError", read_type |-> "none"]
             ELSE IF Len(file.rows) > 0 /\ "sample_id" \notin columns
             THEN [exc |-> "KeyError", read_type |-> read_type]
             ELSE [exc |-> "none", read_type |-> read_type,
                   sheet |-> [is_paired |-> read_type = "paired-end",
                              samples |-> ParseSamples(file, read_type)]]

NoSheet == [is_paired |-> FALSE, samples |-> <<>>, constructed |-> FALSE]

InitLoad ==
    /\ fs \in SheetFiles
    /\ sheet = NoSheet
    /\ pipe = [state |-> "none", method |-> "none", results |-> <<>>]
    /\ qcall = [op |-> "none"]
    /\ ProfilerIdle
    /\ MLIdle

\* sheet = SampleSheet(path)
Load ==
    /\ qcall.op = "none"
    /\ \E loaded \in {LoadSheet(fs)} :
          /\ qcall' = [op |-> "load", exc |-> loaded.exc, read_type |-> loaded.read_type]
          /\ sheet' = IF loaded.exc = "none" THEN loaded.sheet ELSE sheet
    /\ UNCHANGED <<fs, pipe>>
    /\ UNCHANGED pvars
    /\ UNCHANGED mlvars

NextLoad == Load

SpecLoad == InitLoad /\ [][NextLoad]_vars

\* Vocabulary of the load claims.
Loaded == qcall.op = "load"

LoadSucceeded == Loaded /\ qcall.exc = "none"

HasColumn(name) == name \in NormalizedColumns(fs.columns)

\* C25: over the normalized column names, the read type is paired-end iff
\* the fastq_r1 and fastq_r2 columns are both there, whether or not a fastq
\* column is there too; otherwise it is single-end if there is a fastq
\* column, whose cells are then the files, or if there is only fastq_r1,
\* whose cells are then the files; in every other case, a lone fastq_r2
\* included, loading ends with ValueError and no sheet object exists.
C25_ReadTypeDetection ==
    (Loaded /\ fs.present) =>
        LET both == HasColumn("fastq_r1") /\ HasColumn("fastq_r2")
            single == ~both /\ (HasColumn("fastq") \/ HasColumn("fastq_r1"))
        IN  /\ both => qcall.read_type = "paired-end"
            /\ single => qcall.read_type \in {"single-end", "single-end from fastq_r1"}
            /\ (~both /\ ~single) <=> qcall.exc = "ValueError"
            /\ qcall.exc = "ValueError" => sheet = NoSheet
            /\ LoadSucceeded =>
                  /\ sheet.is_paired <=> both
                  /\ \A k \in 1..Len(fs.rows) :
                        sheet.samples[k].fastq_r1 =
                            StrStrip(RowGet(fs.rows[k], fs.columns,
                                IF both \/ ~HasColumn("fastq") THEN "fastq_r1" ELSE "fastq"))

\* A sheet with the three file columns is paired-end, and its files are the
\* cells of fastq_r1 and fastq_r2.
C25_Witness ==
    /\ LoadSucceeded
    /\ {"fastq", "r1", "fastq_2", "sample"} \subseteq fs.columns
    /\ "fastq_r1" \notin fs.columns
    /\ Len(sheet.samples) = 2
    /\ sheet.is_paired
    /\ sheet.samples[1].fastq_r1 = Reads
    /\ sheet.samples[2].fastq_r1 = <<"nan">>

RecordsOf(sample_id) == {k \in DOMAIN pipe.results : pipe.results[k].sample_id = sample_id}

\* C26: results never holds two records of one sample_id, and when run()
\* has completed with the tool installed it holds exactly one record for
\* each sample of the sheet, however often run() was called on the pipeline.
C26_OneRecordPerSample ==
    /\ \A sample_id \in SampleIds : Cardinality(RecordsOf(sample_id)) <= 1
    /\ (RunReturned /\ qcall.installed) =>
          \A sample_id \in SheetIds : Cardinality(RecordsOf(sample_id)) = 1


-----------------------------------------------------------------------------
(* run(parallel=True): the thread pool, one step of one thread at a time      *)

\* ThreadPoolExecutor(max_workers=2)
MaxWorkers == 2

MaxParallel == 3

\* Sheets that take the parallel branch: more than one sample, single-end,
\* identifiers distinct as the constructor demands.
ParallelSheets ==
    {[is_paired |-> FALSE,
      samples |-> [k \in 1..n |-> SampleAt(k, "S2", <<Reads, None>>, <<Reads, None>>)]] :
        n \in 2..MaxParallel}

ParallelFs ==
    [exists |-> {Reads}, output_dir |-> TRUE, quant |-> {}, counts |-> {}, tpm |-> {},
     sample_info |-> <<>>]

\* A constructed pipeline whose run(parallel=True) has passed the
\* installation check and enters the with block.
InitParallel ==
    /\ sheet \in ParallelSheets
    /\ fs = ParallelFs
    /\ pipe \in {[state |-> "constructed", method |-> method, results |-> <<>>] :
                    method \in Methods}
    /\ qcall = [op |-> "run", pc |-> "submitting", submitted |-> 0, queue |-> <<>>,
                running |-> {}, completed |-> {}, yielded |-> {},
                outcomes |-> [k \in DOMAIN sheet.samples |-> "pending"],
                starts |-> [k \in DOMAIN sheet.samples |-> 0],
                returned |-> FALSE]
    /\ ProfilerIdle
    /\ MLIdle

\* executor.submit(self._run_salmon_quant, sample), for the next sample of
\* the sheet; after the last one the main thread enters as_completed.
Submit ==
    /\ qcall.op = "run" /\ qcall.pc = "submitting"
    /\ qcall' = [qcall EXCEPT
                    !.submitted = @ + 1,
                    !.queue = Append(@, qcall.submitted + 1),
                    !.pc = IF qcall.submitted + 1 = Len(sheet.samples)
                           THEN "collecting" ELSE "submitting"]
    /\ UNCHANGED <<sheet, fs, pipe>>
    /\ UNCHANGED <<pvars, mlvars>>

WorkerTakeUnboundedMutant ==
    /\ qcall.op = "run" /\ qcall.pc \in {"submitting", "collecting"}
    /\ qcall.queue # <<>>
    /\ qcall' = [qcall EXCEPT
                    !.queue = Tail(@),
                    !.running = @ \cup {Head(qcall.queue)},
                    !.starts[Head(qcall.queue)] = @ + 1]
    /\ UNCHANGED <<sheet, fs, pipe>>
    /\ UNCHANGED <<pvars, mlvars>>

\* A worker thread that is idle takes the oldest work item of the pool's
\* queue and starts the tool for it.
WorkerTake ==
    /\ qcall.op = "run" /\ qcall.pc \in {"submitting", "collecting"}
    /\ Cardinality(qcall.running) < MaxWorkers
    /\ qcall.queue # <<>>
    /\ qcall' = [qcall EXCEPT
                    !.queue = Tail(@),
                    !.running = @ \cup {Head(qcall.queue)},
                    !.starts[Head(qcall.queue)] = @ + 1]
    /\ UNCHANGED <<sheet, fs, pipe>>
    /\ UNCHANGED <<pvars, mlvars>>

\* The tool of a worker ends in some way and the worker's call returns its
\* result: the future is done.
WorkerFinish ==
    /\ qcall.op = "run" /\ qcall.pc \in {"submitting", "collecting"}
    /\ \E k \in qcall.running, outcome \in Outcomes :
          /\ qcall' = [qcall EXCEPT
                          !.running = @ \ {k},
                          !.completed = @ \cup {k},
                          !.outcomes[k] = outcome]
          /\ fs' = [fs EXCEPT !.quant = IF outcome = "ok"
                                        THEN @ \cup {sheet.samples[k].sample_id} ELSE @]
    /\ UNCHANGED <<sheet, pipe>>
    /\ UNCHANGED <<pvars, mlvars>>

\* for future in as_completed(futures): self.results.append(future.result()),
\* in the main thread, for any future that is done and not yet yielded.
Collect ==
    /\ qcall.op = "run" /\ qcall.pc = "collecting"
    /\ \E k \in qcall.completed :
          /\ pipe' = [pipe EXCEPT
                         !.results = Append(@, RunQuant(sheet.samples[k],
                                                        qcall.outcomes[k]).result)]
          /\ qcall' = [qcall EXCEPT !.completed = @ \ {k}, !.yielded = @ \cup {k}]
    /\ UNCHANGED <<sheet, fs>>
    /\ UNCHANGED <<pvars, mlvars>>

\* The loop and the with block end when every future was yielded; the rest
\* of run() follows.
ReturnFromRun ==
    /\ qcall.op = "run" /\ qcall.pc = "collecting"
    /\ qcall.yielded = DOMAIN sheet.samples
    /\ \E end \in {Finish(pipe.results, fs)} :
          /\ fs' = end.fs
          /\ qcall' = [qcall EXCEPT !.pc = "returned", !.returned = end.returned]
    /\ UNCHANGED <<sheet, pipe>>
    /\ UNCHANGED <<pvars, mlvars>>

NextParallel == Submit \/ WorkerTake \/ WorkerFinish \/ Collect \/ ReturnFromRun

SpecParallel == InitParallel /\ [][NextParallel]_vars

\* run(parallel=False) of the same pipeline with the same outcomes of the tool.
Sequential ==
    RunCall(<<>>, sheet.samples, ParallelFs, TRUE,
            [k \in DOMAIN sheet.samples |-> k], qcall.outcomes)

Records(results) == {results[k] : k \in DOMAIN results}

\* C27: in parallel mode, in every interleaving, each sample is started at
\* most once and exactly once by the end, at most 2 are in flight, results
\* holds exactly one record for every future yielded, and at the return of
\* run() the records, the return value and the samples of the count matrix
\* are those of sequential mode; only the order of the records may differ.
C27_ParallelAsSequential ==
    /\ \A k \in DOMAIN sheet.samples : qcall.starts[k] <= 1
    /\ Cardinality(qcall.running) <= MaxWorkers
    /\ Len(pipe.results) = Cardinality(qcall.yielded)
    /\ \A k \in qcall.yielded :
          Cardinality({i \in DOMAIN pipe.results :
                          pipe.results[i].sample_id = sheet.samples[k].sample_id}) = 1
    /\ qcall.pc = "returned" =>
          /\ \A k \in DOMAIN sheet.samples : qcall.starts[k] = 1
          /\ Len(pipe.results) = Len(Sequential.results)
          /\ Records(pipe.results) = Records(Sequential.results)
          /\ qcall.returned = Sequential.returned
          /\ fs.counts = Sequential.fs.counts
          /\ fs.tpm = Sequential.fs.tpm
          /\ fs.quant = Sequential.fs.quant
          /\ Records(fs.sample_info) = Records(Sequential.fs.sample_info)

\* Three samples, the last one's record arrived first and the first one's
\* last; one of them failed.
C27_Witness ==
    /\ qcall.pc = "returned"
    /\ Len(pipe.results) = 3
    /\ pipe.results[1].sample_id = sheet.samples[3].sample_id
    /\ pipe.results[3].sample_id = sheet.samples[1].sample_id
    /\ ~pipe.results[2].success
    /\ fs.counts = {sheet.samples[1].sample_id, sheet.samples[3].sample_id}
    /\ ~qcall.returned


-----------------------------------------------------------------------------
(* raptor/sample_sheet.py: auto_detect_samples                                *)

\* File names are sequences of characters; all files are in one directory,
\* so a path is written as its file name.
Filename(middle, ext) == <<"a">> \o middle \o ext

FqExt == <<".", "f", "q">>

\* The names a directory of the model may hold: one naming family per
\* marker, mixed forms, a name without marker and a file that is no FASTQ.
Filenames ==
    {Filename(<<"_", "R", "1", "_", "0", "0", "1">>, FqExt),
     Filename(<<"_", "R", "2", "_", "0", "0", "1">>, FqExt),
     Filename(<<"_", "R", "1">>, FqExt),
     Filename(<<"_", "R", "2">>, FqExt),
     Filename(<<"_", "R", "1", "_", "1">>, FqExt),
     Filename(<<"_", "R", "1", "_", "2">>, FqExt),
     Filename(<<"_", "R", "2", "_", "1">>, FqExt),
     Filename(<<"_", "R", "2", "_", "2">>, FqExt),
     Filename(<<".", "R", "1">>, FqExt),
     Filename(<<".", "R", "2">>, FqExt),
     Filename(<<"_", "1">>, FqExt),
     Filename(<<"_", "2">>, FqExt),
     Filename(<<>>, FqExt),
     Filename(<<"_", "R", "2">>, <<".", "t", "x", "t">>)}

MaxFiles == 4

\* The contents of input_dir.
Directories == {d \in SUBSET Filenames : Cardinality(d) <= MaxFiles}

\* The code points that order the characters of the names.
CodePoint ==
    [c \in {".", "0", "1", "2", "R", "_", "a", "f", "q", "t", "x"} |->
        CASE c = "." -> 46 [] c = "0" -> 48 [] c = "1" -> 49 [] c = "2" -> 50
          [] c = "R" -> 82 [] c = "_" -> 95 [] c = "a" -> 97 [] c = "f" -> 102
          [] c = "q" -> 113 [] c = "t" -> 116 [] c = "x" -> 120]

\* s < t for Python strings.
RECURSIVE StrLess(_, _)
StrLess(s, t) ==
    IF t = <<>> THEN FALSE
    ELSE IF s = <<>> THEN TRUE
    ELSE IF s[1] # t[1] THEN CodePoint[s[1]] < CodePoint[t[1]]
    ELSE StrLess(Tail(s), Tail(t))

\* sorted(files)
RECURSIVE SortedFiles(_)
SortedFiles(files) ==
    IF files = {} THEN <<>>
    ELSE LET first == CHOOSE f \in files : \A other \in files \ {f} : StrLess(f, other)
         IN  <<first>> \o SortedFiles(files \ {first})

StartsWith(s, sub) == Len(s) >= Len(sub) /\ SubSeq(s, 1, Len(sub)) = sub

\* sub in s
Contains(s, sub) ==
    \E i \in 1..(Len(s) - Len(sub) + 1) : SubSeq(s, i, i + Len(sub) - 1) = sub

\* s.replace(old, new): every occurrence, from the left, not overlapping.
RECURSIVE Replace(_, _, _)
Replace(s, old, new) ==
    IF Len(s) < Len(old) THEN s
    ELSE IF StartsWith(s, old)
    THEN new \o Replace(SubSeq(s, Len(old) + 1, Len(s)), old, new)
    ELSE <<s[1]>> \o Replace(Tail(s), old, new)

\* s.split(sep)[0]
RECURSIVE SplitFirst(_, _)
SplitFirst(s, sep) ==
    IF Len(s) < Len(sep) THEN s
    ELSE IF StartsWith(s, sep) THEN <<>>
    ELSE <<s[1]>> \o SplitFirst(Tail(s), sep)

\* fastq_patterns = ['*.fastq.gz', '*.fq.gz', '*.fastq', '*.fq']
FastqPatterns ==
    <<<<".", "f", "a", "s", "t", "q", ".", "g", "z">>, <<".", "f", "q", ".", "g", "z">>,
      <<".", "f", "a", "s", "t", "q">>, <<".", "f", "q">>>>

\* input_path.glob(pat) over the patterns: the FASTQ files of the directory.
GlobFastq(directory) ==
    {f \in directory : \E k \in DOMAIN FastqPatterns : EndsWith(f, FastqPatterns[k])}

\* r1_to_r2, in the order of the list.
R1ToR2 ==
    <<<<(<<"_", "R", "1", "_", "0", "0", "1">>), (<<"_", "R", "2", "_", "0", "0", "1">>)>>,
      <<(<<"_", "R", "1", ".">>), (<<"_", "R", "2", ".">>)>>,
      <<(<<"_", "R", "1", "_">>), (<<"_", "R", "2", "_">>)>>,
      <<(<<".", "R", "1", ".">>), (<<".", "R", "2", ".">>)>>,
      <<(<<"_", "1", ".">>), (<<"_", "2", ".">>)>>>>

\* The markers of a file whose R2 name is among the FASTQ files; the loop
\* over r1_to_r2 stops at the first of them.
PairingMarkers(fq, fastq_files) ==
    {m \in DOMAIN R1ToR2 :
        /\ Contains(fq, R1ToR2[m][1])
        /\ Replace(fq, R1ToR2[m][1], R1ToR2[m][2]) \in fastq_files}

\* re.sub(r'[_\-\.]$', '', sample_name)
CleanPairedName(sample_name) ==
    IF sample_name # <<>> /\ sample_name[Len(sample_name)] \in {"_", "-", "."}
    THEN SubSeq(sample_name, 1, Len(sample_name) - 1) ELSE sample_name

\* The extensions removed one after the other, then
\* re.sub(r'[_\.]?(R?[12]|r?[12])$', '', sample_name).
RECURSIVE RemoveExtensions(_, _)
RemoveExtensions(sample_name, k) ==
    IF k > Len(FastqPatterns) THEN sample_name
    ELSE RemoveExtensions(Replace(sample_name, FastqPatterns[k], <<>>), k + 1)

CleanSingleName(sample_name) ==
    LET n == Len(sample_name)
        digit(i) == i >= 1 /\ sample_name[i] \in {"1", "2"}
        letter(i) == i >= 1 /\ sample_name[i] \in {"R", "r"}
        sep(i) == i >= 1 /\ sample_name[i] \in {"_", "."}
        cut == IF ~digit(n) THEN 0
               ELSE IF letter(n - 1) /\ sep(n - 2) THEN 3
               ELSE IF letter(n - 1) \/ sep(n - 1) THEN 2
               ELSE 1
    IN  SubSeq(sample_name, 1, n - cut)

\* The loop over the sorted files from position k on: the list of samples.
RECURSIVE DetectLoop(_, _, _, _)
DetectLoop(fastq_files, k, samples, used_files) ==
    IF k > Len(fastq_files) THEN samples
    ELSE LET fq == fastq_files[k]
             all == {fastq_files[i] : i \in DOMAIN fastq_files}
             markers == PairingMarkers(fq, all)
         IN  IF fq \in used_files
             THEN DetectLoop(fastq_files, k + 1, samples, used_files)
             ELSE IF markers # {}
             THEN LET m == CHOOSE m \in markers : \A other \in markers : m <= other
                      r2_path == Replace(fq, R1ToR2[m][1], R1ToR2[m][2])
                  IN  DetectLoop(fastq_files, k + 1,
                          Append(samples,
                              [sample_id |-> CleanPairedName(SplitFirst(fq, R1ToR2[m][1])),
                               fastq_r1 |-> fq, fastq_r2 |-> Some(r2_path)]),
                          used_files \cup {fq, r2_path})
             ELSE DetectLoop(fastq_files, k + 1,
                      Append(samples,
                          [sample_id |-> CleanSingleName(RemoveExtensions(fq, 1)),
                           fastq_r1 |-> fq, fastq_r2 |-> None]),
                      used_files \cup {fq})

\* auto_detect_samples(input_dir)
AutoDetectSamples(input_exists, directory) ==
    IF ~input_exists THEN [exc |-> "FileNotFoundError"]
    ELSE IF GlobFastq(directory) = {} THEN [exc |-> "ValueError"]
    ELSE LET samples == DetectLoop(SortedFiles(GlobFastq(directory)), 1, <<>>, {})
             paired_count == Cardinality({k \in DOMAIN samples : SampleIsPaired(samples[k])})
             single_count == Len(samples) - paired_count
         IN  [exc |-> "none", samples |-> samples,
              read_type |-> IF paired_count >= single_count THEN "paired" ELSE "single"]

InitDetect ==
    /\ fs \in {[input_exists |-> TRUE, files |-> d] : d \in Directories}
              \cup {[input_exists |-> FALSE, files |-> {}]}
    /\ sheet = NoSheet
    /\ pipe = [state |-> "none", method |-> "none", results |-> <<>>]
    /\ qcall = [op |-> "none"]
    /\ ProfilerIdle
    /\ MLIdle

\* samples, read_type = auto_detect_samples(input_dir)
AutoDetect ==
    /\ qcall.op = "none"
    /\ \E call \in {AutoDetectSamples(fs.input_exists, fs.files)} :
          qcall' = IF call.exc # "none" THEN [op |-> "auto_detect", exc |-> call.exc]
                   ELSE [op |-> "auto_detect", exc |-> "none", samples |-> call.samples,
                         read_type |-> call.read_type]
    /\ UNCHANGED <<sheet, fs, pipe>>
    /\ UNCHANGED <<pvars, mlvars>>

NextDetect == AutoDetect

SpecDetect == InitDetect /\ [][NextDetect]_vars

\* Vocabulary of the detection claim.
Detected == qcall.op = "auto_detect" /\ qcall.exc = "none"

\* The places of the returned samples that hold a file.
Uses(file) ==
    {<<k, "fastq_r1">> : k \in {k \in DOMAIN qcall.samples : qcall.samples[k].fastq_r1 = file}}
    \cup {<<k, "fastq_r2">> :
             k \in {k \in DOMAIN qcall.samples : qcall.samples[k].fastq_r2 = Some(file)}}

\* C29: the returned samples partition the discovered FASTQ files: every
\* discovered file is in exactly one place of exactly one sample, nothing
\* else is in a sample, the R2 mate of a pair is the fastq_r1 of no
\* single-end sample, and the mate of a file is the name obtained from it by
\* replacing one of its R1 markers with the corresponding R2 marker.
C29_DetectedFilesPartition ==
    Detected =>
        /\ \A file \in GlobFastq(fs.files) : Cardinality(Uses(file)) = 1
        /\ \A file \in Filenames \ GlobFastq(fs.files) : Uses(file) = {}
        /\ \A k, j \in DOMAIN qcall.samples :
              (SampleIsPaired(qcall.samples[k]) /\ ~SampleIsPaired(qcall.samples[j]))
                  => qcall.samples[j].fastq_r1 # qcall.samples[k].fastq_r2[1]
        /\ \A k \in DOMAIN qcall.samples :
              SampleIsPaired(qcall.samples[k]) =>
                  \E m \in DOMAIN R1ToR2 :
                      /\ Contains(qcall.samples[k].fastq_r1, R1ToR2[m][1])
                      /\ qcall.samples[k].fastq_r2[1] =
                             Replace(qcall.samples[k].fastq_r1, R1ToR2[m][1], R1ToR2[m][2])

=============================================================================
